---- MODULE Spec2Model ----
(***************************************************************************)
(* Model of the LLM-suggestion pipeline of octocampus/llm-suggestions:     *)
(* LLMClient (lazy backend handle, generate, parse_json_response),         *)
(* build_user_prompt, LLMSuggestionsService.generate_suggestions and the   *)
(* POST /llm/suggestions endpoint.                                         *)
(* Beside the pipeline: ProfilingSuggestionService over the profiling      *)
(* tables, TrinoDataFetchService over the discovery records, and the       *)
(* KeycloakTokenService shared by threads.                                 *)
(*                                                                         *)
(* Text encoding.  A Python str is a sequence of symbols.  A symbol is     *)
(* either one character ("[", "]", "{", "}", ",", ":", the double quote,   *)
(* " ", "\n", a digit) or an indivisible run of characters: FENCE, the     *)
(* three backquotes that open and close a markdown code block, and words   *)
(* such as "json" or "severity".  Offsets count symbols, so the code's     *)
(* "+ 7" after the labeled fence is the length of <<FENCE, "json">> and    *)
(* its "+ 3" after a plain fence is the length of <<FENCE>>.               *)
(***************************************************************************)
EXTENDS Integers, Sequences, FiniteSets, TLC

\* ---- bounds ----
MaxSegs == 5
MaxElems == 2
MaxCalls == 3
MaxRows == 11
\* the analyzer is applied to columns of up to MaxRun distinct whole numbers
\* followed by up to MaxFree cells chosen freely
MaxRun == 11
MaxFree == 3
\* service instances running side by side, and invocations on each of them
NumInstances == 2
MaxInvocations == 2
\* calls made on one ProfilingSuggestionService
MaxSaves == 3
\* discovery records in the discovery_data table
MaxRecords == 2
\* threads sharing the KeycloakTokenService, calls by each, minutes of clock
NumThreads == 2
MaxKcCalls == 3
MaxTime == 3

\* ---- symbols ----
\* the three backquotes of a markdown fence, as one symbol
FENCE == "<fence>"
QUOTE == "\""
TRUNC == "<cut>"

Whitespace == {" ", "\n"}
Digits == {"1", "5"}
Punct == {"[", "]", "{", "}", ",", ":"}
SingleChars == Whitespace \cup Digits \cup Punct \cup {QUOTE}

\* The characters of every multi-character symbol that can occur inside a
\* JSON string of the modelled responses.
Chars(sym) ==
    CASE sym = "column" -> <<"c", "o", "l", "u", "m", "n">>
      [] sym = "issues" -> <<"i", "s", "s", "u", "e", "s">>
      [] sym = "recommendation" ->
             <<"r", "e", "c", "o", "m", "m", "e", "n", "d", "a", "t", "i", "o", "n">>
      [] sym = "severity" -> <<"s", "e", "v", "e", "r", "i", "t", "y">>
      [] sym = "critical" -> <<"c", "r", "i", "t", "i", "c", "a", "l">>
      [] sym = "high" -> <<"h", "i", "g", "h">>
      [] sym = "medium" -> <<"m", "e", "d", "i", "u", "m">>
      [] sym = "bogus" -> <<"b", "o", "g", "u", "s">>
      [] sym = "email" -> <<"e", "m", "a", "i", "l">>
      [] sym = "age" -> <<"a", "g", "e">>
      [] sym = "json" -> <<"j", "s", "o", "n">>
      [] sym = "null" -> <<"n", "u", "l", "l">>
      [] sym = FENCE -> <<"<backquote>", "<backquote>", "<backquote>">>
      [] OTHER -> <<sym>>

\* ---- Python str helpers ----
\* t[i:i+len(sub)] == sub, i counted from 0
MatchAt(t, sub, i) ==
    /\ i + Len(sub) <= Len(t)
    /\ \A k \in 1..Len(sub) : t[i + k] = sub[k]

\* sub in t
Contains(t, sub) == \E i \in 0..Len(t) : MatchAt(t, sub, i)

\* t.find(sub, from): lowest index >= from where sub occurs, else -1
Find(t, sub, from) ==
    IF \E i \in from..Len(t) : MatchAt(t, sub, i)
    THEN CHOOSE i \in from..Len(t) :
             /\ MatchAt(t, sub, i)
             /\ \A j \in from..(i - 1) : ~MatchAt(t, sub, j)
    ELSE -1

\* t[start:end] for start >= 0 and end >= -1.  end = -1 stops one CHARACTER
\* before the end of the text: a last symbol of several characters is cut
\* and what is left of it is TRUNC, which is no JSON token and closes no
\* string.
Slice(t, start, end) ==
    IF end >= 0
    THEN SubSeq(t, start + 1, end)
    ELSE IF start >= Len(t)
         THEN <<>>
         ELSE IF t[Len(t)] \in SingleChars
              THEN SubSeq(t, start + 1, Len(t) - 1)
              ELSE SubSeq(t, start + 1, Len(t) - 1) \o <<TRUNC>>

RECURSIVE LStrip(_)
LStrip(t) ==
    IF t # <<>> /\ Head(t) \in Whitespace THEN LStrip(Tail(t)) ELSE t

RECURSIVE RStrip(_)
RStrip(t) ==
    IF t # <<>> /\ t[Len(t)] \in Whitespace
    THEN RStrip(SubSeq(t, 1, Len(t) - 1))
    ELSE t

\* t.strip()
Strip(t) == RStrip(LStrip(t))

\* ---- JSON values ----
JNull == [t |-> "null"]
JStr(s) == [t |-> "str", s |-> s]
JNum(d) == [t |-> "num", n |-> d]
JArr(a) == [t |-> "arr", a |-> a]
JObj(o) == [t |-> "obj", o |-> o]

Fail == [ok |-> FALSE, v |-> JNull, n |-> 0]
Ok(v, n) == [ok |-> TRUE, v |-> v, n |-> n]

\* index of the first symbol at or after i (1-based) that is not whitespace
RECURSIVE SkipWs(_, _)
SkipWs(t, i) ==
    IF i <= Len(t) /\ t[i] \in Whitespace THEN SkipWs(t, i + 1) ELSE i

\* index of the first symbol at or after i that is not a digit
RECURSIVE SkipDigits(_, _)
SkipDigits(t, i) ==
    IF i <= Len(t) /\ t[i] \in Digits THEN SkipDigits(t, i + 1) ELSE i

\* index of the quote closing the string whose content starts at i, or 0
\* when the string is unterminated or holds a control character or a cut
\* symbol (json.loads is strict: a raw newline inside a string is an error)
RECURSIVE StringEnd(_, _)
StringEnd(t, i) ==
    IF i > Len(t) THEN 0
    ELSE IF t[i] = QUOTE THEN i
    ELSE IF t[i] \in {"\n", TRUNC} THEN 0
    ELSE StringEnd(t, i + 1)

\* json scanner: the value that starts at symbol i (no leading whitespace)
RECURSIVE ParseValue(_, _)
RECURSIVE ParseElems(_, _, _)
RECURSIVE ParseMembers(_, _, _)

ParseString(t, i) ==
    LET e == StringEnd(t, i + 1)
    IN IF e = 0 THEN Fail ELSE Ok(JStr(SubSeq(t, i + 1, e - 1)), e + 1)

ParseValue(t, i) ==
    IF i > Len(t) THEN Fail
    ELSE IF t[i] = QUOTE THEN ParseString(t, i)
    ELSE IF t[i] \in Digits
         THEN LET e == SkipDigits(t, i) IN Ok(JNum(SubSeq(t, i, e - 1)), e)
    ELSE IF t[i] = "null" THEN Ok(JNull, i + 1)
    ELSE IF t[i] = "["
         THEN LET j == SkipWs(t, i + 1)
              IN IF j <= Len(t) /\ t[j] = "]"
                 THEN Ok(JArr(<<>>), j + 1)
                 ELSE ParseElems(t, j, <<>>)
    ELSE IF t[i] = "{"
         THEN LET j == SkipWs(t, i + 1)
              IN IF j <= Len(t) /\ t[j] = "}"
                 THEN Ok(JObj(<<>>), j + 1)
                 ELSE ParseMembers(t, j, <<>>)
    ELSE Fail

\* elements of an array after "[": value (ws) "," (ws) value ... "]"
ParseElems(t, i, acc) ==
    LET r == ParseValue(t, i)
    IN IF ~r.ok THEN Fail
       ELSE LET j == SkipWs(t, r.n)
            IN IF j > Len(t) THEN Fail
               ELSE IF t[j] = "]" THEN Ok(JArr(Append(acc, r.v)), j + 1)
               ELSE IF t[j] = ","
                    THEN ParseElems(t, SkipWs(t, j + 1), Append(acc, r.v))
               ELSE Fail

\* members of an object after "{": string (ws) ":" (ws) value (ws) "," ... "}"
ParseMembers(t, i, acc) ==
    IF i > Len(t) \/ t[i] # QUOTE THEN Fail
    ELSE LET k == ParseString(t, i)
         IN IF ~k.ok THEN Fail
            ELSE LET c == SkipWs(t, k.n)
                 IN IF c > Len(t) \/ t[c] # ":" THEN Fail
                    ELSE LET r == ParseValue(t, SkipWs(t, c + 1))
                         IN IF ~r.ok THEN Fail
                            ELSE LET j == SkipWs(t, r.n)
                                     m == Append(acc, [k |-> k.v.s, v |-> r.v])
                                 IN IF j > Len(t) THEN Fail
                                    ELSE IF t[j] = "}" THEN Ok(JObj(m), j + 1)
                                    ELSE IF t[j] = ","
                                         THEN ParseMembers(t, SkipWs(t, j + 1), m)
                                    ELSE Fail

\* json.loads(t): [ok |-> TRUE, v |-> value] or ok = FALSE for JSONDecodeError
\* (leading and trailing whitespace allowed, anything else after the value is
\* "Extra data")
JsonLoads(t) ==
    LET r == ParseValue(t, SkipWs(t, 1))
    IN IF r.ok /\ SkipWs(t, r.n) = Len(t) + 1 THEN [ok |-> TRUE, v |-> r.v]
       ELSE [ok |-> FALSE, v |-> JNull]

\* ---- LLMClient.parse_json_response ----
LabeledFence == <<FENCE, "json">>
PlainFence == <<FENCE>>

\* the text handed to json.loads: the reassigned local "response"
ExtractJsonText(resp) ==
    IF Contains(resp, LabeledFence)
    THEN LET start == Find(resp, LabeledFence, 0) + Len(LabeledFence)
             end == Find(resp, PlainFence, start)
         IN Strip(Slice(resp, start, end))
    ELSE IF Contains(resp, PlainFence)
         THEN LET start == Find(resp, PlainFence, 0) + Len(PlainFence)
                  end == Find(resp, PlainFence, start)
              IN Strip(Slice(resp, start, end))
         ELSE resp

Returned(v) == [kind |-> "returned", v |-> v, exc |-> "none"]
Raised(e) == [kind |-> "raised", v |-> JNull, exc |-> e]
NotRun == [kind |-> "none", v |-> JNull, exc |-> "none"]

\* json.loads failure is re-raised as ValueError("LLM returned invalid JSON")
LoadsOrValueError(text) ==
    LET r == JsonLoads(text)
    IN IF r.ok THEN Returned(r.v) ELSE Raised("ValueError")

parse_json_response(resp) == LoadsOrValueError(ExtractJsonText(resp))

\* ---- state ----
VARIABLES
    pc,            \* position of the operation under way
    provider,      \* LLMClient.provider
    client,        \* LLMClient._client: 0 is None, k > 0 the k-th handle built
    constructed,   \* number of backend handles constructed so far
    backendCalls,  \* number of requests sent to the generation backend
    usedHandles,   \* the handles requests were sent on
    calls,         \* number of generate calls made on the instance
    genResult,     \* outcome of the last generate call
    sample_rows,   \* the row sample
    user_prompt,   \* result of build_user_prompt
    analyzerRuns,  \* number of calls of _analyze_sample_data_enhanced
    response,      \* text returned by the backend
    parsed,        \* outcome of parse_json_response
    idx,           \* loop index of the conversion loop (0-based)
    rules,         \* the list of DataQualityRule built so far
    result,        \* outcome of generate_suggestions
    cursor,        \* the endpoint's Trino cursor
    closes,        \* number of cursor.close() calls
    failedStep,    \* the pipeline step that raised, "none" when none did
    http,          \* the endpoint's HTTP outcome
    analyzed,      \* the column metadata handed to the analyzer
    col_stats,     \* result of _analyze_sample_data_enhanced
    runs,          \* the pipeline invocations under way, one record each
    request,       \* keyword arguments of the last backend request
    query,         \* the endpoint's query parameters provider and model
    store,         \* the profiling tables: runs, column rows, last outcome
    kc,            \* the shared KeycloakService, its lock and its callers
    disc           \* discovery records, table fetches and their outcome

vars == <<pc, provider, client, constructed, backendCalls, usedHandles, calls,
          genResult, sample_rows, user_prompt, analyzerRuns, response, parsed,
          idx, rules, result, cursor, closes, failedStep, http, analyzed,
          col_stats, runs, request, query, store, kc, disc>>

clientVars == <<provider, client, constructed, backendCalls, usedHandles,
                calls, genResult, request>>
promptVars == <<sample_rows, user_prompt, analyzerRuns>>
parseVars == <<response, parsed>>
loopVars == <<idx, rules, result>>
endpointVars == <<cursor, closes, failedStep, http>>
extraVars == <<analyzed, col_stats, runs, query, store, kc, disc>>

NoPrompt == [path |-> "none"]
NoHttp ==
    [status |-> 0, rules |-> <<>>, row_count_analyzed |-> 0, provider |-> "",
     model_used |-> ""]
\* no request sent yet; no query string; the groups of the other services
NoRequest == <<>>
NoQuery == <<>>
ServicesIdle == query = NoQuery /\ store = <<>> /\ kc = <<>> /\ disc = <<>>

ClientIdle ==
    /\ provider = "groq" /\ client = 0 /\ constructed = 0
    /\ backendCalls = 0 /\ usedHandles = {} /\ calls = 0
    /\ genResult = [kind |-> "none", text |-> <<>>, exc |-> "none"]
    /\ request = NoRequest
PromptIdle == sample_rows = <<>> /\ user_prompt = NoPrompt /\ analyzerRuns = 0
ParseIdle == response = <<>> /\ parsed = NotRun
LoopIdle ==
    /\ idx = 0 /\ rules = <<>>
    /\ result = [kind |-> "none", rules |-> <<>>, exc |-> "none"]
EndpointIdle ==
    cursor = "None" /\ closes = 0 /\ failedStep = "none" /\ http = NoHttp
ExtraIdle == analyzed = <<>> /\ col_stats = <<>> /\ runs = <<>> /\ ServicesIdle

\* ---- LLMClient ----
SupportedProviders == {"groq", "openai", "anthropic", "ollama"}
\* settings.llm_provider is a free-form string
ProviderNames == SupportedProviders \cup {"mistral"}

GenReturned(text) == [kind |-> "returned", text |-> text, exc |-> "none"]
GenRaised(e) == [kind |-> "raised", text |-> <<>>, exc |-> e]
GenNotRun == [kind |-> "none", text |-> <<>>, exc |-> "none"]

\* _init_client: the possible outcomes for an instance whose provider is prov
\* and whose _client is cl, when built handles so far number built.  An
\* outcome is the new _client, the number of handles built by this call and
\* the exception raised ("none" when the call returns).
InitClientOutcomes_NoGuard(prov, cl, built) ==
    IF prov \in SupportedProviders
    THEN {[client |-> built + 1, built |-> 1, exc |-> "none"],
          [client |-> cl, built |-> 0, exc |-> "ImportError"],
          [client |-> cl, built |-> 0, exc |-> "BackendSetupError"]}
    ELSE {[client |-> cl, built |-> 0, exc |-> "ValueError: Unsupported provider"]}

InitClientOutcomes_NoReject(prov, cl, built) ==
    IF cl # 0
    THEN {[client |-> cl, built |-> 0, exc |-> "none"]}
    ELSE IF prov \in SupportedProviders
         THEN {[client |-> built + 1, built |-> 1, exc |-> "none"],
               [client |-> cl, built |-> 0, exc |-> "ImportError"],
               [client |-> cl, built |-> 0, exc |-> "BackendSetupError"]}
         ELSE {[client |-> cl, built |-> 0, exc |-> "none"]}

InitClientOutcomes(prov, cl, built) ==
    IF cl # 0
    THEN {[client |-> cl, built |-> 0, exc |-> "none"]}
    ELSE IF prov \in SupportedProviders
         THEN {[client |-> built + 1, built |-> 1, exc |-> "none"],
               [client |-> cl, built |-> 0, exc |-> "ImportError"],
               [client |-> cl, built |-> 0, exc |-> "BackendSetupError"]}
         ELSE {[client |-> cl, built |-> 0, exc |-> "ValueError: Unsupported provider"]}

\* settings.llm_model, copied to LLMClient.model by __init__
ConfigModel == "openai/gpt-oss-120b"

\* generate: the keyword arguments of the request each variant sends,
\* messages left out; numbers are kept as the source writes them
RequestKwargs(prov, model) ==
    CASE prov = "groq" ->
           [k \in {"model", "temperature", "max_completion_tokens", "top_p"} |->
               CASE k = "model" -> model
                 [] k = "temperature" -> "0.3"
                 [] k = "max_completion_tokens" -> "8192"
                 [] OTHER -> "1"]
      [] prov = "openai" ->
           [k \in {"model", "temperature", "max_tokens"} |->
               CASE k = "model" -> model
                 [] k = "temperature" -> "0.3"
                 [] OTHER -> "2000"]
      [] prov = "anthropic" ->
           [k \in {"model", "temperature", "max_tokens"} |->
               CASE k = "model" -> model
                 [] k = "temperature" -> "0.3"
                 [] OTHER -> "2000"]
      [] prov = "ollama" -> [k \in {"model"} |-> model]
      [] OTHER -> NoRequest

\* generate, first statement: self._init_client()
InitClient ==
    /\ UNCHANGED extraVars
    /\ pc = "gen_init"
    /\ \E o \in InitClientOutcomes(provider, client, constructed) :
          /\ client' = o.client
          /\ constructed' = constructed + o.built
          /\ IF o.exc = "none"
             THEN pc' = "gen_call" /\ UNCHANGED genResult
             ELSE pc' = "gen_done" /\ genResult' = GenRaised(o.exc)
    /\ UNCHANGED <<provider, backendCalls, usedHandles, calls, request>>
    /\ UNCHANGED <<promptVars, parseVars, loopVars, endpointVars>>

\* what the backend may do with one request
BackendFailures == {"AuthenticationError", "APIConnectionError", "RateLimitError",
                    "BadRequestError"}

\* generate, the try block: one request on self._client; the text is
\* returned, an exception is logged and re-raised
BackendCall(texts) ==
    /\ UNCHANGED extraVars
    /\ pc = "gen_call"
    /\ backendCalls' = backendCalls + 1
    /\ usedHandles' = usedHandles \cup {client}
    /\ \/ \E text \in texts : genResult' = GenReturned(text)
       \/ \E e \in BackendFailures : genResult' = GenRaised(e)
    /\ request' = RequestKwargs(provider, ConfigModel)
    /\ pc' = "gen_done"
    /\ UNCHANGED <<provider, client, constructed, calls>>
    /\ UNCHANGED <<promptVars, parseVars, loopVars, endpointVars>>

\* ---- one LLMClient instance, generate called repeatedly ----
ClientTexts == {<<"[", "]">>, <<"{", "}">>}

\* LLMClient.__init__
InitClientSpec ==
    /\ pc = "idle"
    /\ provider \in ProviderNames
    /\ client = 0
    /\ constructed = 0 /\ backendCalls = 0 /\ usedHandles = {} /\ calls = 0
    /\ genResult = GenNotRun /\ request = NoRequest
    /\ PromptIdle /\ ParseIdle /\ LoopIdle /\ EndpointIdle /\ ExtraIdle

\* the caller invokes generate(system_prompt, user_prompt)
CallGenerate ==
    /\ UNCHANGED extraVars
    /\ pc \in {"idle", "gen_done"}
    /\ calls < MaxCalls
    /\ calls' = calls + 1
    /\ genResult' = GenNotRun
    /\ pc' = "gen_init"
    /\ UNCHANGED <<provider, client, constructed, backendCalls, usedHandles,
                   request>>
    /\ UNCHANGED <<promptVars, parseVars, loopVars, endpointVars>>

ClientBackendCall == BackendCall(ClientTexts)

NextClient == CallGenerate \/ InitClient \/ ClientBackendCall

SpecClient == InitClientSpec /\ [][NextClient]_vars

\* ---- C7, C8 ----
\* C7: with a provider name outside groq, openai, anthropic, ollama every
\* generate call fails with ValueError "Unsupported provider"; no backend
\* handle is ever constructed and no backend request is ever sent.
C7_UnsupportedProviderFailsFast ==
    provider \notin SupportedProviders =>
        /\ client = 0 /\ constructed = 0
        /\ backendCalls = 0 /\ pc # "gen_call"
        /\ pc = "gen_done" =>
               genResult = GenRaised("ValueError: Unsupported provider")

C7_Witness ==
    /\ provider \notin SupportedProviders
    /\ calls = 2 /\ pc = "gen_done"
    /\ genResult = GenRaised("ValueError: Unsupported provider")

\* ---- C20 ----
\* C20: an unknown provider name is rejected when the LLMClient is
\* constructed, so no LLMClient instance ever exists whose provider is
\* outside groq, openai, anthropic, ollama.
C20_NoInstanceWithUnknownProvider ==
    pc \in {"idle", "gen_init", "gen_call", "gen_done"} =>
        provider \in SupportedProviders

\* C8: over any sequence of generate calls on one instance the backend
\* handle is constructed at most once: none exists before the first call,
\* and once one exists it stays the instance's handle and every request is
\* sent on it.
C8_HandleBuiltAtMostOnce ==
    /\ constructed <= 1
    /\ calls = 0 => (constructed = 0 /\ client = 0)
    /\ client = constructed
    /\ usedHandles \subseteq {1}

C8_Witness ==
    /\ calls = 3 /\ pc = "gen_done"
    /\ backendCalls = 2 /\ constructed = 1 /\ usedHandles = {1}

\* ---- C21 ----
\* the keyword a variant uses for its output-token ceiling
TokenCeilingKeys == {"max_tokens", "max_completion_tokens"}

\* C21: every request a backend variant sends carries the temperature 0.3
\* and an explicit output-token ceiling
C21_EveryRequestHasTemperatureAndCeiling ==
    request # NoRequest =>
        /\ "temperature" \in DOMAIN request
        /\ request["temperature"] = "0.3"
        /\ DOMAIN request \cap TokenCeilingKeys # {}


\* ---- sample rows ----
PyNone == [py |-> "none", s |-> ""]
PyStr(s) == [py |-> "str", s |-> s]
PyInt(s) == [py |-> "int", s |-> s]

\* row.get(col_name)
RowGet(row, name) == IF name \in DOMAIN row THEN row[name] ELSE PyNone

IsMissing_NoneOnly(v) == v.py = "none"

\* v is None or v == ""
IsMissing(v) == v.py = "none" \/ (v.py = "str" /\ v.s = "")

\* str(v) of a value that is not None
StrOf(v) == v.s

\* ---- text of cells and column names, character by character ----
\* the characters in code-point order
CodeOrder ==
    <<"\n", "%", "+", "-", ".", "/",
      "0", "1", "2", "3", "4", "5", "6", "7", "8", "9", "@",
      "A", "B", "C", "D", "E", "F", "G", "H", "I", "J", "K", "L", "M",
      "N", "O", "P", "Q", "R", "S", "T", "U", "V", "W", "X", "Y", "Z", "_",
      "a", "b", "c", "d", "e", "f", "g", "h", "i", "j", "k", "l", "m",
      "n", "o", "p", "q", "r", "s", "t", "u", "v", "w", "x", "y", "z">>

CharCode(c) == CHOOSE i \in 1..Len(CodeOrder) : CodeOrder[i] = c

DecimalDigits == {CodeOrder[i] : i \in 7..16}
UpperLetters == {CodeOrder[i] : i \in 18..43}
LowerLetters == {CodeOrder[i] : i \in 45..70}
Letters == UpperLetters \cup LowerLetters

\* c.lower()
LowerChar(c) ==
    IF c \in UpperLetters THEN CodeOrder[CharCode(c) + 27] ELSE c

\* s.lower()
LowerText(cs) == [i \in 1..Len(cs) |-> LowerChar(cs[i])]

\* list(s) for the texts that occur as cell text, column name or pattern
TextChars(s) ==
    CASE s = "" -> <<>>
      [] s = "1" -> <<"1">>    [] s = "2" -> <<"2">>    [] s = "3" -> <<"3">>
      [] s = "4" -> <<"4">>    [] s = "5" -> <<"5">>    [] s = "6" -> <<"6">>
      [] s = "7" -> <<"7">>    [] s = "8" -> <<"8">>    [] s = "9" -> <<"9">>
      [] s = "10" -> <<"1", "0">>
      [] s = "11" -> <<"1", "1">>
      [] s = "12" -> <<"1", "2">>
      [] s = "a@b.co" -> <<"a", "@", "b", ".", "c", "o">>
      [] s = "a@b.c" -> <<"a", "@", "b", ".", "c">>
      [] s = "Test" -> <<"T", "e", "s", "t">>
      [] s = "nan" -> <<"n", "a", "n">>
      [] s = "test" -> <<"t", "e", "s", "t">>
      [] s = "dummy" -> <<"d", "u", "m", "m", "y">>
      [] s = "n/a" -> <<"n", "/", "a">>
      [] s = "na" -> <<"n", "a">>
      [] s = "null" -> <<"n", "u", "l", "l">>
      [] s = "xxx" -> <<"x", "x", "x">>
      [] s = "none" -> <<"n", "o", "n", "e">>
      [] s = "invalid" -> <<"i", "n", "v", "a", "l", "i", "d">>
      [] s = "id" -> <<"i", "d">>
      [] s = "_id" -> <<"_", "i", "d">>
      [] s = "key" -> <<"k", "e", "y">>
      [] s = "mail" -> <<"m", "a", "i", "l">>
      [] s = "email" -> <<"e", "m", "a", "i", "l">>
      [] s = "customer_id" ->
             <<"c", "u", "s", "t", "o", "m", "e", "r", "_", "i", "d">>
      [] s = "EMAIL" -> <<"E", "M", "A", "I", "L">>
      [] s = "mailbox" -> <<"m", "a", "i", "l", "b", "o", "x">>
      [] s = "API_KEY" -> <<"A", "P", "I", "_", "K", "E", "Y">>
      [] s = "note" -> <<"n", "o", "t", "e">>

\* a < b for two str values: code points compared left to right
TextLess(a, b) ==
    LET x == TextChars(a)
        y == TextChars(b)
    IN \E i \in 1..(Len(y)) :
          /\ \A j \in 1..(i - 1) : j <= Len(x) /\ x[j] = y[j]
          /\ \/ i = Len(x) + 1
             \/ i <= Len(x) /\ CharCode(x[i]) < CharCode(y[i])

\* sorted(set_of_str)
RECURSIVE Sorted(_)
Sorted(S) ==
    IF S = {} THEN <<>>
    ELSE LET least == CHOOSE x \in S : \A y \in S \ {x} : TextLess(x, y)
         IN <<least>> \o Sorted(S \ {least})

\* ---- _analyze_sample_data_enhanced ----
\* seq[:k]
Prefix(seq, k) == SubSeq(seq, 1, IF Len(seq) < k THEN Len(seq) ELSE k)

ColumnValues(name, rows) == [i \in 1..Len(rows) |-> RowGet(rows[i], name)]

\* variant: only None is dropped, the empty string is kept
NonNullValues_KeepEmpty(values) == SelectSeq(values, LAMBDA v : v # PyNone)

\* [v for v in values if v is not None and v != ""]
NonNullValues(values) == SelectSeq(values, LAMBDA v : ~IsMissing(v))

\* set(str(v) for v in non_null_values)
DistinctTexts(non_null_values) ==
    {StrOf(non_null_values[i]) : i \in 1..Len(non_null_values)}

KeepsSampleValues_Below(distinct_count, non_null_values) ==
    distinct_count < 10 /\ non_null_values # <<>>

\* col_stats["distinct_count"] <= 10 and non_null_values
KeepsSampleValues(distinct_count, non_null_values) ==
    distinct_count <= 10 /\ non_null_values # <<>>

\* sorted(set(str(v) for v in non_null_values))[:10]
SampleValues(non_null_values) ==
    Prefix(Sorted(DistinctTexts(non_null_values)), 10)

\* ---- float(v) ----
\* a float is NaN or a number; the cell texts hold whole numbers only
NaN == [nan |-> TRUE, x |-> 0]
Num(x) == [nan |-> FALSE, x |-> x]

RECURSIVE DecimalValue(_)
DecimalValue(cs) ==
    IF cs = <<>> THEN 0
    ELSE 10 * DecimalValue(SubSeq(cs, 1, Len(cs) - 1))
             + (CharCode(cs[Len(cs)]) - CharCode("0"))

\* float(v): an int converts, a str converts when it spells digits or
\* (in any letter case) nan, anything else raises ValueError
Float(v) ==
    LET cs == TextChars(v.s)
    IN IF cs # <<>> /\ \A i \in 1..Len(cs) : cs[i] \in DecimalDigits
       THEN [ok |-> TRUE, f |-> Num(DecimalValue(cs))]
       ELSE IF v.py = "str" /\ LowerText(cs) = TextChars("nan")
       THEN [ok |-> TRUE, f |-> NaN]
       ELSE [ok |-> FALSE, f |-> NaN]

\* a < b on floats: false whenever either side is NaN
FloatLess(a, b) == ~a.nan /\ ~b.nan /\ a.x < b.x

\* min(fs): the first element, replaced by each later element that is
\* smaller than the one held
RECURSIVE PyMin(_)
PyMin(fs) ==
    IF Len(fs) = 1 THEN fs[1]
    ELSE LET held == PyMin(SubSeq(fs, 1, Len(fs) - 1))
         IN IF FloatLess(fs[Len(fs)], held) THEN fs[Len(fs)] ELSE held

\* max(fs)
RECURSIVE PyMax(_)
PyMax(fs) ==
    IF Len(fs) = 1 THEN fs[1]
    ELSE LET held == PyMax(SubSeq(fs, 1, Len(fs) - 1))
         IN IF FloatLess(held, fs[Len(fs)]) THEN fs[Len(fs)] ELSE held

NumericValues_SkipBad(non_null_values) ==
    LET good == SelectSeq(non_null_values, LAMBDA v : Float(v).ok)
    IN [ok |-> TRUE, fs |-> [i \in 1..Len(good) |-> Float(good[i]).f]]

\* numeric_values = [float(v) for v in non_null_values] inside the try:
\* one value that does not convert abandons the whole list
NumericValues(non_null_values) ==
    IF \A i \in 1..Len(non_null_values) : Float(non_null_values[i]).ok
    THEN [ok |-> TRUE,
          fs |-> [i \in 1..Len(non_null_values) |-> Float(non_null_values[i]).f]]
    ELSE [ok |-> FALSE, fs |-> <<>>]

\* ---- the email pattern ----
LocalChars == Letters \cup DecimalDigits \cup {".", "_", "%", "+", "-"}
DomainChars == Letters \cup DecimalDigits \cup {".", "-"}

\* re.match of ^[a-zA-Z0-9._%+-]+@[a-zA-Z0-9.-]+\.[a-zA-Z]{2,}$ : a local
\* part, an at sign, a domain, a dot and two or more letters up to the end
\* of the text (or up to a final line feed)
EmailMatches(cs) ==
    \E e \in {Len(cs)} \cup
             (IF cs # <<>> /\ cs[Len(cs)] = "\n" THEN {Len(cs) - 1} ELSE {}) :
      \E at \in 2..e :
        \E dot \in (at + 2)..(e - 2) :
            /\ cs[at] = "@" /\ cs[dot] = "."
            /\ \A i \in 1..(at - 1) : cs[i] \in LocalChars
            /\ \A i \in (at + 1)..(dot - 1) : cs[i] \in DomainChars
            /\ \A i \in (dot + 1)..e : cs[i] \in Letters

\* "email" in col_name.lower() or "mail" in col_name.lower()
IsEmailColumn(name) ==
    LET lower == LowerText(TextChars(name))
    IN Contains(lower, TextChars("email")) \/ Contains(lower, TextChars("mail"))

NoEmailStats == [flag |-> FALSE, count |-> 0, examples |-> <<>>]

EmailStats_CountExamples(non_null_values) ==
    LET invalid_emails ==
            SelectSeq(non_null_values,
                      LAMBDA v : ~EmailMatches(TextChars(StrOf(v))))
    IN IF invalid_emails # <<>>
       THEN [flag |-> TRUE,
             count |-> Len(Prefix(invalid_emails, 3)),
             examples |-> Prefix(invalid_emails, 3)]
       ELSE NoEmailStats

\* the values that do not match, their number and the first three of them
EmailStats(non_null_values) ==
    LET invalid_emails ==
            SelectSeq(non_null_values,
                      LAMBDA v : ~EmailMatches(TextChars(StrOf(v))))
    IN IF invalid_emails # <<>>
       THEN [flag |-> TRUE,
             count |-> Len(invalid_emails),
             examples |-> Prefix(invalid_emails, 3)]
       ELSE NoEmailStats

\* ---- duplicates ----
\* "id" in col_name.lower() or "_id" in ... or "key" in ...
IsIdColumn(name) ==
    LET lower == LowerText(TextChars(name))
    IN \/ Contains(lower, TextChars("id"))
       \/ Contains(lower, TextChars("_id"))
       \/ Contains(lower, TextChars("key"))

\* value_counts[str(v)]
ValueCount(non_null_values, text) ==
    Cardinality({i \in 1..Len(non_null_values) : StrOf(non_null_values[i]) = text})

RECURSIVE SumCounts(_, _)
SumCounts(non_null_values, texts) ==
    IF texts = {} THEN 0
    ELSE LET t == CHOOSE x \in texts : TRUE
         IN ValueCount(non_null_values, t)
                + SumCounts(non_null_values, texts \ {t})

NoDuplicateStats == [flag |-> FALSE, count |-> 0]

DuplicateStats_SumOnly(non_null_values) ==
    LET duplicates == {t \in DistinctTexts(non_null_values) :
                          ValueCount(non_null_values, t) > 1}
    IN IF duplicates # {}
       THEN [flag |-> TRUE, count |-> SumCounts(non_null_values, duplicates)]
       ELSE NoDuplicateStats

\* duplicates = the texts counted more than once;
\* duplicate_count = sum(duplicates.values()) - len(duplicates)
DuplicateStats(non_null_values) ==
    LET duplicates == {t \in DistinctTexts(non_null_values) :
                          ValueCount(non_null_values, t) > 1}
    IN IF duplicates # {}
       THEN [flag |-> TRUE,
             count |-> SumCounts(non_null_values, duplicates)
                           - Cardinality(duplicates)]
       ELSE NoDuplicateStats

\* ---- placeholders ----
PlaceholderValues ==
    {"test", "dummy", "n/a", "na", "null", "xxx", "none", "invalid"}

\* any(str(v).lower() in placeholder_values for v in non_null_values)
HasPlaceholder(non_null_values) ==
    \E i \in 1..Len(non_null_values) :
        \E p \in PlaceholderValues :
            LowerText(TextChars(StrOf(non_null_values[i]))) = TextChars(p)

\* ---- one column's entry of the stats dict ----
\* keys lists the keys the entry holds; a field whose key is not listed
\* carries a filler
ColStats(name, rows) ==
    LET values == ColumnValues(name, rows)
        non_null_values == NonNullValues(values)
        null_count == Len(values) - Len(non_null_values)
        sample_size == Len(rows)
        distinct_count == Cardinality(DistinctTexts(non_null_values))
        keeps == KeepsSampleValues(distinct_count, non_null_values)
        numeric == NumericValues(non_null_values)
        ranged == numeric.ok /\ numeric.fs # <<>>
        email == IF IsEmailColumn(name) THEN EmailStats(non_null_values)
                 ELSE NoEmailStats
        dups == IF IsIdColumn(name) THEN DuplicateStats(non_null_values)
                ELSE NoDuplicateStats
        placeholder == HasPlaceholder(non_null_values)
    IN [keys |-> {"null_count", "null_pct", "distinct_count"}
                 \cup (IF keeps THEN {"sample_values"} ELSE {})
                 \cup (IF ranged THEN {"min", "max"} ELSE {})
                 \cup (IF email.flag
                       THEN {"has_email_issues", "email_invalid_count",
                             "email_invalid_examples"}
                       ELSE {})
                 \cup (IF dups.flag THEN {"has_duplicates", "duplicate_count"}
                       ELSE {})
                 \cup (IF placeholder THEN {"has_placeholder"} ELSE {}),
        null_count |-> null_count,
        \* null_count / sample_size * 100, kept as an exact fraction
        null_pct |-> IF sample_size > 0
                     THEN [num |-> null_count * 100, den |-> sample_size]
                     ELSE [num |-> 0, den |-> 1],
        distinct_count |-> distinct_count,
        sample_values |-> IF keeps THEN SampleValues(non_null_values) ELSE <<>>,
        min |-> IF ranged THEN PyMin(numeric.fs) ELSE NaN,
        max |-> IF ranged THEN PyMax(numeric.fs) ELSE NaN,
        email_invalid_count |-> email.count,
        email_invalid_examples |-> email.examples,
        duplicate_count |-> dups.count]

\* the stats dict: one entry per column with a non-empty name, none at all
\* for an empty sample
AnalyzeSampleDataEnhanced(columns, rows) ==
    IF rows = <<>>
    THEN [n \in {} |-> 0]
    ELSE [n \in {columns[i].column_name : i \in 1..Len(columns)} \ {""} |->
              ColStats(n, rows)]

\* ---- build_user_prompt ----
FirstRows_All(rows, k) == rows

\* sample_rows[:k]
FirstRows(rows, k) == SubSeq(rows, 1, IF Len(rows) < k THEN Len(rows) ELSE k)

\* json.dumps(v, default=str) of one cell: None gives null, an int a JSON
\* number, a str a JSON string
DumpsValue(v) ==
    IF v.py = "none" THEN JNull
    ELSE IF v.py = "int" THEN JNum(<<v.s>>)
    ELSE JStr(<<v.s>>)

\* json.dumps(sample_rows[:k], indent=2, default=str): one JSON object per
\* row, in row order, holding the row's own keys
DumpsRows(rows) ==
    [i \in 1..Len(rows) |-> [key \in DOMAIN rows[i] |-> DumpsValue(rows[i][key])]]

MandateEmpty == "Output exactly: []"
MandateFindings == "output JSON array of ONLY columns with real problems"

\* one line of the column summary: the null insight and the distinct insight
ColumnSummary(col, stats, n) ==
    LET known == col.column_name \in DOMAIN stats
        null_count == IF known THEN stats[col.column_name].null_count ELSE 0
        distinct == IF known THEN stats[col.column_name].distinct_count ELSE 0
    IN [column_name |-> col.column_name,
        column_type |-> col.column_type,
        nulls |-> IF null_count > 0 THEN <<null_count, n>> ELSE <<>>,
        distinct |-> IF distinct > 0 THEN <<distinct>> ELSE <<>>]

InsufficientPrompt(table_info, rows) ==
    [path |-> "insufficient",
     table |-> <<table_info.schema_name, table_info.table_name>>,
     sample_size |-> Len(rows),
     sample_warning |-> FALSE,
     stats_computed |-> FALSE,
     column_summaries |-> <<>>,
     sample_text |-> <<>>,
     instruction |-> MandateEmpty]

FullPrompt(table_info, rows) ==
    LET stats == AnalyzeSampleDataEnhanced(table_info.columns, rows)
    IN [path |-> "full",
        table |-> <<table_info.schema_name, table_info.table_name>>,
        sample_size |-> Len(rows),
        sample_warning |-> Len(rows) < 10,
        stats_computed |-> TRUE,
        column_summaries |->
            [i \in 1..Len(table_info.columns) |->
                ColumnSummary(table_info.columns[i], stats, Len(rows))],
        sample_text |-> DumpsRows(FirstRows(rows, 10)),
        instruction |-> MandateFindings]

build_user_prompt_OffByOne(table_info, rows) ==
    IF Len(rows) <= 5
    THEN InsufficientPrompt(table_info, rows)
    ELSE FullPrompt(table_info, rows)

build_user_prompt(table_info, rows) ==
    IF Len(rows) < 5
    THEN InsufficientPrompt(table_info, rows)
    ELSE FullPrompt(table_info, rows)

\* ---- build_user_prompt applied to every sample of up to MaxRows rows ----
TableInfo ==
    [schema_name |-> "billing", table_name |-> "transactions",
     columns |-> <<[column_name |-> "id", column_type |-> "unknown"],
                   [column_name |-> "email", column_type |-> "unknown"]>>]

RowChoices ==
    {[n \in {"id", "email"} |-> IF n = "id" THEN PyInt("1") ELSE PyStr("a@b.co")],
     [n \in {"id"} |-> PyInt("5")]}

Samples(maxLen) == UNION {[1..n -> RowChoices] : n \in 0..maxLen}

InitPrompt ==
    /\ pc = "prompt_start"
    /\ sample_rows \in Samples(MaxRows)
    /\ user_prompt = NoPrompt
    /\ analyzerRuns = 0
    /\ ClientIdle /\ ParseIdle /\ LoopIdle /\ EndpointIdle /\ ExtraIdle

BuildUserPrompt ==
    /\ UNCHANGED extraVars
    /\ pc = "prompt_start"
    /\ user_prompt' = build_user_prompt(TableInfo, sample_rows)
    /\ analyzerRuns' = analyzerRuns + IF user_prompt'.stats_computed THEN 1 ELSE 0
    /\ pc' = "prompt_done"
    /\ UNCHANGED <<sample_rows, clientVars, parseVars, loopVars, endpointVars>>

NextPrompt == BuildUserPrompt

SpecPrompt == InitPrompt /\ [][NextPrompt]_vars

\* ---- C10 ----
\* C10: build_user_prompt splits samples by row count n: n < 5 gives the
\* insufficient-data instruction, which mandates an empty result and holds
\* no column statistics and no rows (the analyzer is not run); 5 <= n < 10
\* gives the full prompt with the limited-sample caution; n >= 10 gives the
\* full prompt without it.
C10_PromptCasesByRowCount ==
    pc = "prompt_done" =>
        LET n == Len(sample_rows)
        IN /\ n < 5 =>
                 /\ user_prompt.path = "insufficient"
                 /\ user_prompt.instruction = MandateEmpty
                 /\ user_prompt.column_summaries = <<>>
                 /\ user_prompt.sample_text = <<>>
                 /\ analyzerRuns = 0
           /\ (5 <= n /\ n < 10) =>
                 /\ user_prompt.path = "full"
                 /\ user_prompt.sample_warning
                 /\ analyzerRuns = 1
           /\ n >= 10 =>
                 /\ user_prompt.path = "full"
                 /\ ~user_prompt.sample_warning
                 /\ analyzerRuns = 1

C10_Witness ==
    /\ pc = "prompt_done"
    /\ Len(sample_rows) = 5
    /\ user_prompt.path = "full" /\ user_prompt.sample_warning
    /\ Len(user_prompt.sample_text) = 5

\* ---- C11 ----
\* C11: on the full path the prompt embeds exactly the first min(n, 10) rows
\* of the sample, serialised one by one in their original order; a row at
\* position 11 or later never appears.
C11_EmbedsFirstTenRowsInOrder ==
    (pc = "prompt_done" /\ user_prompt.path = "full") =>
        LET n == Len(sample_rows)
            shown == IF n < 10 THEN n ELSE 10
        IN /\ Len(user_prompt.sample_text) = shown
           /\ \A i \in 1..shown :
                  user_prompt.sample_text[i] = DumpsRows(<<sample_rows[i]>>)[1]

\* a sample of 11 rows whose last row differs from all the rows embedded
C11_Witness ==
    /\ pc = "prompt_done" /\ user_prompt.path = "full"
    /\ Len(sample_rows) = 11
    /\ Len(user_prompt.sample_text) = 10
    /\ \A i \in 1..10 : sample_rows[i] # sample_rows[11]

\* ---- _analyze_sample_data_enhanced applied to one column at a time ----
ColumnNames == {"customer_id", "API_KEY", "EMAIL", "mailbox", "note"}

\* a cell: None, the empty string, an int, and strs that spell a number, a
\* valid address, a placeholder in capitals, and nan
CellChoices ==
    {PyNone, PyStr(""), PyInt("1"), PyStr("1"), PyStr("a@b.co"), PyStr("Test"),
     PyStr("nan")}

DecimalText(k) ==
    <<"1", "2", "3", "4", "5", "6", "7", "8", "9", "10", "11", "12">>[k]

\* rows holding the whole numbers 1..k in the column
RunRows(name, k) == [i \in 1..k |-> [n \in {name} |-> PyInt(DecimalText(i))]]

\* a row that holds the column, or lacks the key altogether
FreeRows(name) == {[n \in {name} |-> v] : v \in CellChoices} \cup {<<>>}

RunLengths == {0, 3} \cup ((MaxRun - 2)..MaxRun)

ColumnSamples(name) ==
    {RunRows(name, k) \o free :
        k \in RunLengths,
        free \in UNION {[1..n -> FreeRows(name)] : n \in 0..MaxFree}}

InitAnalyze ==
    /\ pc = "analyze_start"
    /\ \E name \in ColumnNames :
          /\ analyzed = <<[column_name |-> name, column_type |-> "unknown"]>>
          /\ sample_rows \in ColumnSamples(name)
    /\ col_stats = <<>>
    /\ runs = <<>>
    /\ user_prompt = NoPrompt /\ analyzerRuns = 0
    /\ ClientIdle /\ ParseIdle /\ LoopIdle /\ EndpointIdle /\ ServicesIdle

AnalyzeSampleData ==
    /\ pc = "analyze_start"
    /\ col_stats' = AnalyzeSampleDataEnhanced(analyzed, sample_rows)
    /\ analyzerRuns' = analyzerRuns + 1
    /\ pc' = "analyze_done"
    /\ UNCHANGED <<sample_rows, user_prompt, analyzed, runs, clientVars,
                   parseVars, loopVars, endpointVars, query, store, kc, disc>>

NextAnalyze == AnalyzeSampleData

SpecAnalyze == InitAnalyze /\ [][NextAnalyze]_vars

\* the analysed column, its cells and its entry of the stats dict
TheColumn == analyzed[1].column_name
Cells == ColumnValues(TheColumn, sample_rows)
Populated == {i \in 1..Len(sample_rows) : ~IsMissing(Cells[i])}
Entry == col_stats[TheColumn]
Analyzed == pc = "analyze_done" /\ TheColumn \in DOMAIN col_stats

\* col_stat.get("null_pct", 0) as the prompt builder reads it
NullPctRead ==
    IF TheColumn \in DOMAIN col_stats THEN Entry.null_pct
    ELSE [num |-> 0, den |-> 1]

PopulatedTexts == {StrOf(Cells[i]) : i \in Populated}

\* ---- C13 ----
\* C13: the entry holds sample_values exactly when 1 <= distinct_count <= 10;
\* it is then the sorted list of all the distinct str-normalised populated
\* cells, as long as distinct_count.
C13_SampleValuesUpToTenDistinct ==
    Analyzed =>
        /\ Entry.distinct_count = Cardinality(PopulatedTexts)
        /\ ("sample_values" \in Entry.keys) <=>
               (1 <= Entry.distinct_count /\ Entry.distinct_count <= 10)
        /\ "sample_values" \in Entry.keys =>
               LET sv == Entry.sample_values
               IN /\ Len(sv) = Entry.distinct_count
                  /\ {sv[i] : i \in 1..Len(sv)} = PopulatedTexts
                  /\ \A i, j \in 1..Len(sv) : i < j => TextLess(sv[i], sv[j])

\* ten distinct values, listed in str order: 10 comes before 2
C13_Witness ==
    /\ Analyzed
    /\ Entry.distinct_count = 10
    /\ "sample_values" \in Entry.keys
    /\ Entry.sample_values[2] = "10" /\ Entry.sample_values[3] = "2"
    /\ Len(sample_rows) > 10

\* ---- C14 ----
\* a cell that converts to a number
IsNumeric(v) == Float(v).ok /\ ~Float(v).f.nan

\* C14: the entry holds min and max exactly when the column has a populated
\* cell and every populated cell converts to a number; they are then the
\* least and the greatest of all the converted values, so one cell that is
\* not a number leaves the column without a range.
C14_RangeOnlyWhenAllNumeric ==
    Analyzed =>
        LET all_numeric == Populated # {} /\ \A i \in Populated : IsNumeric(Cells[i])
            numbers == {Float(Cells[i]).f.x : i \in Populated}
        IN /\ ("min" \in Entry.keys) <=> all_numeric
           /\ ("max" \in Entry.keys) <=> all_numeric
           /\ all_numeric =>
                 /\ ~Entry.min.nan /\ ~Entry.max.nan
                 /\ Entry.min.x \in numbers /\ Entry.max.x \in numbers
                 /\ \A x \in numbers : Entry.min.x <= x /\ x <= Entry.max.x

\* ---- C15 ----
\* C15: for a column whose name contains email or mail in any letter case,
\* the entry is flagged for email issues exactly when a populated cell fails
\* the address pattern; email_invalid_count is the number of such cells and
\* at most three of them, the first ones, are kept as examples; a column of
\* valid addresses is never flagged.
C15_EmailFlagCountsInvalidCells ==
    (Analyzed /\ TheColumn \in {"EMAIL", "mailbox"}) =>
        LET invalid == {i \in Populated : ~EmailMatches(TextChars(StrOf(Cells[i])))}
            examples == Entry.email_invalid_examples
        IN /\ ("has_email_issues" \in Entry.keys) <=> invalid # {}
           /\ invalid # {} =>
                 /\ Entry.email_invalid_count = Cardinality(invalid)
                 /\ Len(examples) = IF Cardinality(invalid) < 3
                                    THEN Cardinality(invalid) ELSE 3
                 /\ \A k \in 1..Len(examples) :
                        \E i \in invalid :
                            /\ examples[k] = Cells[i]
                            /\ Cardinality({j \in invalid : j < i}) = k - 1

\* a column named EMAIL with a valid address and more than three others
C15_Witness ==
    /\ Analyzed /\ TheColumn = "EMAIL"
    /\ \E i \in Populated : Cells[i] = PyStr("a@b.co")
    /\ "has_email_issues" \in Entry.keys
    /\ Entry.email_invalid_count > 3
    /\ Len(Entry.email_invalid_examples) = 3

\* ---- C16 ----
\* C16: for a column whose name contains id or key, the entry is flagged for
\* duplicates exactly when some str-normalised populated cell occurs more
\* than once, and duplicate_count is the sum over the repeated values of
\* their occurrences less one; a column named otherwise is never flagged.
C16_DuplicateFlagCountsRepeats ==
    Analyzed =>
        LET repeated == \E i, j \in Populated :
                            i # j /\ StrOf(Cells[i]) = StrOf(Cells[j])
        IN /\ TheColumn \in {"customer_id", "API_KEY"} =>
                 /\ ("has_duplicates" \in Entry.keys) <=> repeated
                 /\ repeated =>
                        Entry.duplicate_count =
                            Cardinality(Populated) - Cardinality(PopulatedTexts)
           /\ TheColumn \in {"EMAIL", "mailbox", "note"} =>
                 "has_duplicates" \notin Entry.keys

\* the cells 1, 2, 3, 1 give one duplicate
C16_Witness ==
    /\ Analyzed /\ TheColumn = "customer_id"
    /\ Len(sample_rows) = 4
    /\ \A i \in 1..4 : Cells[i] = PyInt(<<"1", "2", "3", "1">>[i])
    /\ "has_duplicates" \in Entry.keys
    /\ Entry.duplicate_count = 1

\* ---- C25 ----
\* C25: in the entry of a column analysed over N rows, null_count plus the
\* number of populated cells is N, null_pct lies between 0 and 100, and
\* distinct_count is at most the number of populated cells; when the entry is
\* flagged for duplicates, duplicate_count is the number of populated cells
\* less distinct_count, and at least 1
C25_ColumnStatArithmetic ==
    Analyzed =>
        LET N == Len(sample_rows)
            populated == Cardinality(Populated)
        IN /\ Entry.null_count + populated = N
           /\ 0 <= Entry.null_pct.num
           /\ Entry.null_pct.num <= 100 * Entry.null_pct.den
           /\ Entry.null_pct.den > 0
           /\ Entry.distinct_count <= populated
           /\ "has_duplicates" \in Entry.keys =>
                 /\ Entry.duplicate_count = populated - Entry.distinct_count
                 /\ Entry.duplicate_count >= 1

\* a flagged key column with one missing cell and one value held twice
C25_Witness ==
    /\ Analyzed /\ TheColumn = "API_KEY"
    /\ Len(sample_rows) = 3
    /\ "has_duplicates" \in Entry.keys
    /\ Entry.null_count = 1
    /\ Entry.distinct_count = 1
    /\ Entry.duplicate_count = 1

\* ---- DataQualityRule ----
\* d[key] of a parsed JSON object: the last member with that key wins
ObjHas(o, key) == \E i \in 1..Len(o) : o[i].k = key

ObjGet(o, key) ==
    o[CHOOSE i \in 1..Len(o) :
          /\ o[i].k = key
          /\ \A j \in (i + 1)..Len(o) : o[j].k # key].v

\* list(d): the keys of a dict in first-insertion order
RECURSIVE DictKeys(_, _)
DictKeys(o, seen) ==
    IF o = <<>> THEN <<>>
    ELSE IF Head(o).k \in seen
         THEN DictKeys(Tail(o), seen)
         ELSE <<Head(o).k>> \o DictKeys(Tail(o), seen \cup {Head(o).k})

SeverityValues == {<<"critical">>, <<"high">>, <<"medium">>}

IsStrField(o, key) == ObjHas(o, key) /\ ObjGet(o, key).t = "str"

IsStrListField(o, key) ==
    /\ ObjHas(o, key)
    /\ ObjGet(o, key).t = "arr"
    /\ \A i \in 1..Len(ObjGet(o, key).a) : ObjGet(o, key).a[i].t = "str"

MakeRule(o) ==
    [column |-> ObjGet(o, <<"column">>).s,
     issues |-> [i \in 1..Len(ObjGet(o, <<"issues">>).a) |->
                    ObjGet(o, <<"issues">>).a[i].s],
     recommendation |-> ObjGet(o, <<"recommendation">>).s,
     severity |-> ObjGet(o, <<"severity">>).s]

NoRule == [column |-> <<>>, issues |-> <<>>, recommendation |-> <<>>,
           severity |-> <<>>]

\* DataQualityRule(**rule_data): TypeError when rule_data is no mapping,
\* ValidationError when a field is missing, has the wrong type or the
\* severity is not a member of the enum; extra keys are ignored
DataQualityRule_AnySeverity(rule_data) ==
    IF /\ rule_data.t = "obj"
       /\ IsStrField(rule_data.o, <<"column">>)
       /\ IsStrListField(rule_data.o, <<"issues">>)
       /\ IsStrField(rule_data.o, <<"recommendation">>)
       /\ IsStrField(rule_data.o, <<"severity">>)
    THEN [ok |-> TRUE, rule |-> MakeRule(rule_data.o)]
    ELSE [ok |-> FALSE, rule |-> NoRule]

DataQualityRule(rule_data) ==
    IF /\ rule_data.t = "obj"
       /\ IsStrField(rule_data.o, <<"column">>)
       /\ IsStrListField(rule_data.o, <<"issues">>)
       /\ IsStrField(rule_data.o, <<"recommendation">>)
       /\ IsStrField(rule_data.o, <<"severity">>)
       /\ ObjGet(rule_data.o, <<"severity">>).s \in SeverityValues
    THEN [ok |-> TRUE, rule |-> MakeRule(rule_data.o)]
    ELSE [ok |-> FALSE, rule |-> NoRule]

\* ---- LLMSuggestionsService.generate_suggestions ----
RulesReturned(rs) == [kind |-> "returned", rules |-> rs, exc |-> "none"]
RulesRaised(e) == [kind |-> "raised", rules |-> <<>>, exc |-> e]
RulesNotRun == [kind |-> "none", rules |-> <<>>, exc |-> "none"]

\* the characters of a str
RECURSIVE CharsOf(_)
CharsOf(syms) ==
    IF syms = <<>> THEN <<>> ELSE Chars(Head(syms)) \o CharsOf(Tail(syms))

\* can enumerate(rules_json) iterate the parsed value
Iterable(v) == v.t \in {"arr", "obj", "str"}

\* what enumerate(rules_json) yields: the elements of a list, the keys of a
\* dict, the characters of a str
IterItems(v) ==
    CASE v.t = "arr" -> v.a
      [] v.t = "obj" -> LET ks == DictKeys(v.o, {})
                        IN [i \in 1..Len(ks) |-> JStr(ks[i])]
      [] v.t = "str" -> LET cs == CharsOf(v.s)
                        IN [i \in 1..Len(cs) |-> JStr(<<cs[i]>>)]
      [] OTHER -> <<>>

\* the except clause around generate: log and re-raise
OnGenerateError_Swallow(exc) == RulesReturned(<<>>)

OnGenerateError(exc) == RulesRaised(exc)

ConvertStep_AppendTwice(rs, rule_data) ==
    IF DataQualityRule(rule_data).ok
    THEN Append(Append(rs, DataQualityRule(rule_data).rule),
                DataQualityRule(rule_data).rule)
    ELSE rs

\* one pass of the conversion loop body over rule_data
ConvertStep(rs, rule_data) ==
    IF DataQualityRule(rule_data).ok
    THEN Append(rs, DataQualityRule(rule_data).rule)
    ELSE rs

\* ---- what a generation backend may answer ----
Str1(w) == JStr(<<w>>)

Member(key, v) == [k |-> <<key>>, v |-> v]

FindingObj(col, issues, rec, sev) ==
    JObj(<<Member("column", Str1(col)), Member("issues", JArr(issues)),
           Member("recommendation", Str1(rec)), Member("severity", Str1(sev))>>)

GoodEmail == FindingObj("email", <<Str1("x")>>, "r", "high")
GoodAge == FindingObj("age", <<Str1("x"), Str1("y")>>, "r", "critical")
BogusSeverity == FindingObj("age", <<Str1("x")>>, "y", "bogus")
EmptyIssues == FindingObj("email", <<>>, "r", "medium")
MissingField ==
    JObj(<<Member("column", Str1("age")), Member("issues", JArr(<<Str1("x")>>)),
           Member("severity", Str1("high"))>>)
WrongType ==
    JObj(<<Member("column", Str1("age")), Member("issues", Str1("x")),
           Member("recommendation", Str1("r")), Member("severity", Str1("high"))>>)
NotObject == JNum(<<"1">>)

ElemChoices == {GoodEmail, GoodAge, BogusSeverity, EmptyIssues, MissingField,
                WrongType, NotObject}

ArrayPayloads ==
    {JArr(a) : a \in UNION {[1..n -> ElemChoices] : n \in 0..MaxElems}}

OtherPayloads == {JObj(<<>>), GoodEmail, Str1("high"), JNum(<<"5">>), JNull}

\* a JSON text of a value
RECURSIVE Dumps(_)
RECURSIVE DumpsElems(_)
RECURSIVE DumpsMembers(_)

Dumps(v) ==
    CASE v.t = "null" -> <<"null">>
      [] v.t = "num" -> v.n
      [] v.t = "str" -> <<QUOTE>> \o v.s \o <<QUOTE>>
      [] v.t = "arr" -> <<"[">> \o DumpsElems(v.a) \o <<"]">>
      [] v.t = "obj" -> <<"{">> \o DumpsMembers(v.o) \o <<"}">>

DumpsElems(a) ==
    IF a = <<>> THEN <<>>
    ELSE IF Len(a) = 1 THEN Dumps(a[1])
    ELSE Dumps(Head(a)) \o <<",", " ">> \o DumpsElems(Tail(a))

DumpsMembers(o) ==
    IF o = <<>> THEN <<>>
    ELSE LET m == <<QUOTE>> \o Head(o).k \o <<QUOTE, ":", " ">> \o Dumps(Head(o).v)
         IN IF Len(o) = 1 THEN m ELSE m \o <<",", " ">> \o DumpsMembers(Tail(o))

NotJsonTexts == {<<"issues">>, <<"[", "1">>, <<>>}

BodyTexts == {Dumps(v) : v \in ArrayPayloads \cup OtherPayloads} \cup NotJsonTexts

LabeledBlock(text) == <<FENCE, "json", "\n">> \o text \o <<"\n", FENCE>>

PipelineResponses == BodyTexts \cup {LabeledBlock(t) : t \in BodyTexts}

\* ---- POST /llm/suggestions ----
HttpOk(rs, n, prov) ==
    [status |-> 200, rules |-> rs, row_count_analyzed |-> n, provider |-> prov,
     model_used |-> ConfigModel]
HttpError ==
    [status |-> 500, rules |-> <<>>, row_count_analyzed |-> 0, provider |-> "",
     model_used |-> ""]

\* generate_llm_suggestions: the query parameters provider and model, both
\* None when the request leaves them out
QueryChoices ==
    {[provider |-> PyNone, model |-> PyNone],
     [provider |-> PyStr("ollama"), model |-> PyStr("llama3")]}

\* the table behind the request; a request's limit selects a prefix of it
TableRows ==
    [i \in 1..MaxRows |->
        IF i % 2 = 1
        THEN [n \in {"id", "email"} |->
                 IF n = "id" THEN PyInt("1") ELSE PyStr("a@b.co")]
        ELSE [n \in {"id"} |-> PyInt("5")]]

\* ---- several service instances, invoked repeatedly and side by side ----
\* SuggestionResponse(...) as generate_suggestions_response builds it
SuggestionResponse(rs, rows, cols, prov) ==
    [rules |-> rs,
     row_count_analyzed |-> Len(rows),
     model_used |-> ConfigModel,
     metadata |-> [column_count |-> Len(cols), provider |-> prov]]

RunReturned(resp) == [kind |-> "returned", resp |-> resp, exc |-> "none"]
RunRaised(e) ==
    [kind |-> "raised", resp |-> SuggestionResponse(<<>>, <<>>, <<>>, ""), exc |-> e]

\* the texts a deterministic backend stub is set to answer
StubTexts ==
    <<Dumps(JArr(<<GoodEmail, BogusSeverity>>)), Dumps(JArr(<<GoodAge>>)),
      <<"issues">>>>

RunSamples == {FirstRows(TableRows, 3), FirstRows(TableRows, 6)}

\* LLMSuggestionsService(): a client without handle; nothing invoked yet
NewRun(stub) ==
    [pc |-> "idle", stub |-> stub, client |-> 0, invocations |-> 0,
     user_prompt |-> NoPrompt, response |-> <<>>,
     parsed |-> NotRun, idx |-> 0, rules |-> <<>>, done |-> <<>>]

FreshRules_Keep(previous) == previous

\* rules = []
FreshRules(previous) == <<>>

ResponseOf_Shared(rs, p) == rs[1].response

\* the local variable response of invocation p
ResponseOf(rs, p) == rs[p].response

\* _init_client with the packages installed: the cached handle, a new
\* handle, or the ValueError for an unsupported provider
StubInitClient(prov, cl) ==
    CHOOSE o \in InitClientOutcomes(prov, cl, 0) :
        o.exc \notin {"ImportError", "BackendSetupError"}

InitRuns ==
    /\ pc = "runs"
    /\ provider \in {"groq", "mistral"}
    /\ sample_rows \in RunSamples
    \* instances are interchangeable: the answers are dealt in list order
    /\ \E f \in [1..NumInstances -> 1..Len(StubTexts)] :
          /\ \A i, j \in 1..NumInstances : i < j => f[i] <= f[j]
          /\ runs = [p \in 1..NumInstances |-> NewRun(StubTexts[f[p]])]
    /\ client = 0 /\ constructed = 0 /\ backendCalls = 0 /\ usedHandles = {}
    /\ calls = 0 /\ genResult = GenNotRun
    /\ user_prompt = NoPrompt /\ analyzerRuns = 0
    /\ analyzed = <<>> /\ col_stats = <<>>
    /\ request = NoRequest
    /\ ParseIdle /\ LoopIdle /\ EndpointIdle /\ ServicesIdle

RunUnchanged ==
    UNCHANGED <<pc, sample_rows, user_prompt, analyzerRuns, analyzed, col_stats,
                clientVars, parseVars, loopVars, endpointVars, query, store,
                kc, disc>>

FinishRun(r, outcome) ==
    [r EXCEPT !.pc = "idle", !.done = Append(r.done, outcome)]

\* generate_suggestions_response is called; build_user_prompt runs
RunInvoke(p) ==
    /\ runs[p].pc = "idle"
    /\ runs[p].invocations < MaxInvocations
    /\ runs' = [runs EXCEPT
          ![p] = [runs[p] EXCEPT
                     !.pc = "generate",
                     !.invocations = runs[p].invocations + 1,
                     !.user_prompt = build_user_prompt(TableInfo, sample_rows)]]
    /\ RunUnchanged

\* self.llm_client.generate(SYSTEM_PROMPT, user_prompt) against the stub
RunGenerate(p) ==
    /\ runs[p].pc = "generate"
    /\ LET o == StubInitClient(provider, runs[p].client)
       IN runs' = [runs EXCEPT
             ![p] = IF o.exc = "none"
                    THEN [runs[p] EXCEPT !.pc = "parse",
                                         !.client = o.client,
                                         !.response = runs[p].stub]
                    ELSE FinishRun(runs[p], RunRaised(OnGenerateError(o.exc).exc))]
    /\ RunUnchanged

\* parse_json_response(response) and the start of the conversion loop
RunParse(p) ==
    /\ runs[p].pc = "parse"
    /\ LET parsedNow == parse_json_response(ResponseOf(runs, p))
       IN runs' = [runs EXCEPT
             ![p] = IF parsedNow.kind = "raised"
                    THEN FinishRun(runs[p], RunRaised(parsedNow.exc))
                    ELSE IF ~Iterable(parsedNow.v)
                    THEN FinishRun(runs[p], RunRaised("TypeError"))
                    ELSE [runs[p] EXCEPT !.pc = "convert",
                                         !.parsed = parsedNow,
                                         !.idx = 0,
                                         !.rules = FreshRules(runs[p].rules)]]
    /\ RunUnchanged

\* one iteration of the conversion loop
RunConvert(p) ==
    /\ runs[p].pc = "convert"
    /\ runs[p].idx < Len(IterItems(runs[p].parsed.v))
    /\ runs' = [runs EXCEPT
          ![p] = [runs[p] EXCEPT
                     !.idx = runs[p].idx + 1,
                     !.rules = ConvertStep(runs[p].rules,
                                   IterItems(runs[p].parsed.v)[runs[p].idx + 1])]]
    /\ RunUnchanged

\* return rules, wrapped into the SuggestionResponse
RunReturn(p) ==
    /\ runs[p].pc = "convert"
    /\ runs[p].idx = Len(IterItems(runs[p].parsed.v))
    /\ runs' = [runs EXCEPT
          ![p] = FinishRun(runs[p],
                     RunReturned(SuggestionResponse(runs[p].rules, sample_rows,
                                                    TableInfo.columns, provider)))]
    /\ RunUnchanged

NextRuns ==
    \E p \in 1..NumInstances :
        RunInvoke(p) \/ RunGenerate(p) \/ RunParse(p) \/ RunConvert(p) \/ RunReturn(p)

SpecRuns == InitRuns /\ [][NextRuns]_vars

\* process start: settings.llm_provider is read; request arrives
Init ==
    /\ pc = "ep_start"
    /\ provider \in ProviderNames
    /\ client = 0 /\ constructed = 0 /\ backendCalls = 0 /\ usedHandles = {}
    /\ calls = 0 /\ genResult = GenNotRun /\ request = NoRequest
    /\ PromptIdle /\ ParseIdle /\ LoopIdle /\ EndpointIdle
    /\ analyzed = <<>> /\ col_stats = <<>> /\ runs = <<>>
    /\ query \in QueryChoices /\ store = <<>> /\ kc = <<>> /\ disc = <<>>

\* cursor = create_trino_cursor()
CreateCursor ==
    /\ UNCHANGED extraVars
    /\ pc = "ep_start"
    /\ \/ cursor' = "open" /\ pc' = "ep_fetch" /\ UNCHANGED failedStep
       \/ failedStep' = "cursor" /\ pc' = "ep_except" /\ UNCHANGED cursor
    /\ UNCHANGED <<closes, http, clientVars, promptVars, parseVars, loopVars>>

\* sample_data = trino_service.get_table_sample_data(...)
GetTableSampleData ==
    /\ UNCHANGED extraVars
    /\ pc = "ep_fetch"
    /\ \/ \E n \in 0..MaxRows :
             /\ sample_rows' = FirstRows(TableRows, n)
             /\ pc' = "svc_prompt"
             /\ UNCHANGED failedStep
       \/ failedStep' = "sample" /\ pc' = "ep_except" /\ UNCHANGED sample_rows
    /\ UNCHANGED <<user_prompt, analyzerRuns, cursor, closes, http>>
    /\ UNCHANGED <<clientVars, parseVars, loopVars>>

\* generate_suggestions: user_prompt = build_user_prompt(table_info, sample_rows)
ServiceBuildPrompt ==
    /\ UNCHANGED extraVars
    /\ pc = "svc_prompt"
    /\ user_prompt' = build_user_prompt(TableInfo, sample_rows)
    /\ analyzerRuns' = analyzerRuns + IF user_prompt'.stats_computed THEN 1 ELSE 0
    /\ calls' = calls + 1
    /\ pc' = "gen_init"
    /\ UNCHANGED <<provider, client, constructed, backendCalls, usedHandles,
                   genResult, request>>
    /\ UNCHANGED <<sample_rows, parseVars, loopVars, endpointVars>>

PipelineBackendCall == BackendCall(PipelineResponses)

\* generate_suggestions after self.llm_client.generate(...)
ServiceAfterGenerate ==
    /\ UNCHANGED extraVars
    /\ pc = "gen_done"
    /\ IF genResult.kind = "raised"
       THEN /\ result' = OnGenerateError(genResult.exc)
            /\ failedStep' = IF genResult.exc \in BackendFailures
                             THEN "backend" ELSE "config"
            /\ pc' = "svc_done"
            /\ UNCHANGED response
       ELSE /\ response' = genResult.text
            /\ pc' = "svc_parse"
            /\ UNCHANGED <<result, failedStep>>
    /\ UNCHANGED <<parsed, idx, rules, cursor, closes, http, clientVars, promptVars>>

\* rules_json = self.llm_client.parse_json_response(response), and the start
\* of the for loop over enumerate(rules_json)
ServiceParse ==
    /\ UNCHANGED extraVars
    /\ pc = "svc_parse"
    /\ parsed' = parse_json_response(response)
    /\ IF parsed'.kind = "raised"
       THEN /\ result' = RulesRaised(parsed'.exc)
            /\ failedStep' = "parse"
            /\ pc' = "svc_done"
       ELSE IF ~Iterable(parsed'.v)
            THEN /\ result' = RulesRaised("TypeError")
                 /\ failedStep' = "convert"
                 /\ pc' = "svc_done"
            ELSE /\ pc' = "svc_convert"
                 /\ UNCHANGED <<result, failedStep>>
    /\ UNCHANGED <<response, idx, rules, cursor, closes, http, clientVars, promptVars>>

\* one iteration of the conversion loop
ConvertRule ==
    /\ UNCHANGED extraVars
    /\ pc = "svc_convert"
    /\ idx < Len(IterItems(parsed.v))
    /\ rules' = ConvertStep(rules, IterItems(parsed.v)[idx + 1])
    /\ idx' = idx + 1
    /\ UNCHANGED <<pc, result, clientVars, promptVars, parseVars, endpointVars>>

\* return rules
ReturnRules ==
    /\ UNCHANGED extraVars
    /\ pc = "svc_convert"
    /\ idx = Len(IterItems(parsed.v))
    /\ result' = RulesReturned(rules)
    /\ pc' = "svc_done"
    /\ UNCHANGED <<idx, rules, clientVars, promptVars, parseVars, endpointVars>>

\* generate_suggestions_response wraps the rules; the endpoint returns it
EndpointReturn ==
    /\ UNCHANGED extraVars
    /\ pc = "svc_done"
    /\ result.kind = "returned"
    /\ http' = HttpOk(result.rules, Len(sample_rows), provider)
    /\ pc' = "ep_finally"
    /\ UNCHANGED <<cursor, closes, failedStep, clientVars, promptVars, parseVars, loopVars>>

\* except Exception: raise HTTPException(status_code=500, ...)
HandleException ==
    /\ UNCHANGED extraVars
    /\ \/ pc = "ep_except"
       \/ pc = "svc_done" /\ result.kind = "raised"
    /\ http' = HttpError
    /\ pc' = "ep_finally"
    /\ UNCHANGED <<cursor, closes, failedStep, clientVars, promptVars, parseVars, loopVars>>

\* variant: the close at the end of the try block instead of in finally
CloseCursor_OnSuccessOnly ==
    /\ UNCHANGED extraVars
    /\ pc = "ep_finally"
    /\ IF cursor = "open" /\ http.status = 200
       THEN cursor' = "closed" /\ closes' = closes + 1
       ELSE UNCHANGED <<cursor, closes>>
    /\ pc' = "ep_done"
    /\ UNCHANGED <<failedStep, http, clientVars, promptVars, parseVars, loopVars>>

\* finally: if cursor: cursor.close()
CloseCursor ==
    /\ UNCHANGED extraVars
    /\ pc = "ep_finally"
    /\ IF cursor = "open"
       THEN cursor' = "closed" /\ closes' = closes + 1
       ELSE UNCHANGED <<cursor, closes>>
    /\ pc' = "ep_done"
    /\ UNCHANGED <<failedStep, http, clientVars, promptVars, parseVars, loopVars>>

Next ==
    \/ CreateCursor
    \/ GetTableSampleData
    \/ ServiceBuildPrompt
    \/ InitClient
    \/ PipelineBackendCall
    \/ ServiceAfterGenerate
    \/ ServiceParse
    \/ ConvertRule
    \/ ReturnRules
    \/ EndpointReturn
    \/ HandleException
    \/ CloseCursor

Spec == Init /\ [][Next]_vars

\* ---- C1, C2, C3, C4, C6, C9 ----
\* generate_suggestions has finished
ServiceDone == pc \in {"svc_done", "ep_finally", "ep_done"} /\ result.kind # "none"

\* the fence-stripped content of a text is a JSON array
IsJsonArray(text) == JsonLoads(text).ok /\ JsonLoads(text).v.t = "arr"

\* C1: for every row sample with fewer than 5 rows, whatever text the
\* generation backend returns, generate_suggestions returns an empty
\* finding list.
C1_SmallSampleYieldsEmptyList ==
    (ServiceDone /\ Len(sample_rows) < 5 /\ genResult.kind = "returned") =>
        result = RulesReturned(<<>>)

\* C2: whenever the fence-stripped content of the generated text is not a
\* JSON array (not JSON at all, or JSON of another type), generate_suggestions
\* fails with the ValueError of parse_json_response and returns no list.
C2_NonArrayPayloadRaisesValueError ==
    (ServiceDone /\ genResult.kind = "returned"
        /\ ~IsJsonArray(ExtractJsonText(genResult.text))) =>
        result = RulesRaised("ValueError")

\* an array element from which a Finding can be constructed: an object with
\* a string column, a list of strings issues, a string recommendation and a
\* severity among critical, high, medium
ConstructsFinding(e) ==
    /\ e.t = "obj"
    /\ \A key \in {<<"column">>, <<"issues">>, <<"recommendation">>, <<"severity">>} :
           \E i \in 1..Len(e.o) : e.o[i].k = key
    /\ ObjGet(e.o, <<"column">>).t = "str"
    /\ ObjGet(e.o, <<"recommendation">>).t = "str"
    /\ ObjGet(e.o, <<"issues">>).t = "arr"
    /\ \A i \in 1..Len(ObjGet(e.o, <<"issues">>).a) :
           ObjGet(e.o, <<"issues">>).a[i].t = "str"
    /\ ObjGet(e.o, <<"severity">>) \in
           {Str1("critical"), Str1("high"), Str1("medium")}

\* the Findings of the constructible elements of a, in array order
RECURSIVE FindingsIn(_)
FindingsIn(a) ==
    IF a = <<>> THEN <<>>
    ELSE IF ConstructsFinding(Head(a))
         THEN <<MakeRule(Head(a).o)>> \o FindingsIn(Tail(a))
         ELSE FindingsIn(Tail(a))

\* C3: for every parsed JSON array, generate_suggestions returns exactly the
\* Findings of the elements that construct one, in array order; an element
\* that fails construction is skipped and later elements are still processed.
C3_ReturnsValidElementsInOrder ==
    (ServiceDone /\ parsed.kind = "returned" /\ parsed.v.t = "arr") =>
        result = RulesReturned(FindingsIn(parsed.v.a))

C3_Witness ==
    /\ ServiceDone
    /\ parsed.kind = "returned"
    /\ parsed.v = JArr(<<BogusSeverity, GoodEmail>>)
    /\ result = RulesReturned(<<MakeRule(GoodEmail.o)>>)

\* ---- C18 ----
\* the names of the declared columns, as the texts a Finding would carry
DeclaredColumns ==
    {<<TableInfo.columns[i].column_name>> : i \in 1..Len(TableInfo.columns)}

\* a column text that is a declared name or declared names joined by commas
NamesDeclaredColumns(column) ==
    /\ column # <<>>
    /\ \A i \in 1..Len(column) :
           column[i] \in {",", " "} \/ <<column[i]>> \in DeclaredColumns

\* C18 as stated: a pipeline invocation never returns more Findings than
\* there are declared columns, and every Finding names a declared column or
\* a comma-joined list of declared columns.
C18_FindingsNameDeclaredColumns ==
    (ServiceDone /\ result.kind = "returned") =>
        /\ Len(result.rules) <= Len(TableInfo.columns)
        /\ \A i \in 1..Len(result.rules) :
               NamesDeclaredColumns(result.rules[i].column)

\* C18 amended: a pipeline invocation never returns more Findings than the
\* generated array has elements, and every Finding carries the column text
\* of one of those elements, whether or not that column is declared.
C18_FindingsComeFromGeneratedArray ==
    (ServiceDone /\ result.kind = "returned") =>
        LET items == IterItems(parsed.v)
        IN /\ parsed.kind = "returned"
           /\ Len(result.rules) <= Len(items)
           /\ \A i \in 1..Len(result.rules) :
                  \E j \in 1..Len(items) :
                      /\ items[j].t = "obj"
                      /\ ObjHas(items[j].o, <<"column">>)
                      /\ ObjGet(items[j].o, <<"column">>) =
                             JStr(result.rules[i].column)

\* a Finding for the undeclared column age is returned
C18_Witness ==
    /\ ServiceDone /\ result.kind = "returned"
    /\ Len(sample_rows) >= 5
    /\ parsed.v = JArr(<<GoodAge, GoodEmail>>)
    /\ Len(result.rules) = 2
    /\ result.rules[1].column = <<"age">>
    /\ ~NamesDeclaredColumns(result.rules[1].column)

SoloOutcome(rows, stub, prov) ==
    IF prov \notin SupportedProviders
    THEN RunRaised("ValueError: Unsupported provider")
    ELSE LET loaded == JsonLoads(ExtractJsonText(stub))
             v == loaded.v
         IN IF ~loaded.ok
            THEN RunRaised("ValueError")
            ELSE IF v.t = "arr"
            THEN RunReturned([rules |-> FindingsIn(v.a),
                              row_count_analyzed |-> Len(rows),
                              model_used |-> ConfigModel,
                              metadata |-> [column_count |-> Len(TableInfo.columns),
                                            provider |-> prov]])
            ELSE RunRaised("TypeError")

\* C19: invocations that run side by side, each on its own service and
\* client instance, each end as they would when run alone, however their
\* steps interleave; they share only the read-only configuration. (Outcomes
\* are only ever appended, so it is enough to look at the latest of each
\* instance in every state.)
C19_InterleavedRunsMatchSolo ==
    pc = "runs" =>
        \A p \in 1..NumInstances :
            runs[p].done # <<>> =>
                runs[p].done[Len(runs[p].done)] =
                    SoloOutcome(sample_rows, runs[p].stub, provider)

\* instance 1 has returned Findings while instance 2, given another answer,
\* is in the middle of its conversion loop
C19_Witness ==
    /\ pc = "runs"
    /\ runs[1].stub # runs[2].stub
    /\ runs[1].invocations = 1 /\ Len(runs[1].done) = 1
    /\ runs[1].done[1].kind = "returned"
    /\ runs[1].done[1].resp.rules # <<>>
    /\ runs[2].pc = "convert" /\ runs[2].idx = 1
    /\ runs[2].done = <<>>

\* C4: every Finding built or returned by generate_suggestions has a
\* non-empty issues list and a severity among critical, high, medium.
C4_FindingsHaveIssuesAndSeverity ==
    \A i \in 1..Len(rules) :
        /\ rules[i].issues # <<>>
        /\ rules[i].severity \in SeverityValues

\* C6: the endpoint answers 200 with an empty rules list only when no step
\* failed and the generated payload was a JSON array; whenever a step fails
\* or the payload is not a JSON array the request ends in an HTTP error.
C6_EmptyRulesOnlyWhenClean ==
    pc = "ep_done" =>
        /\ (http.status = 200 /\ http.rules = <<>>) =>
               /\ failedStep = "none"
               /\ genResult.kind = "returned"
               /\ IsJsonArray(ExtractJsonText(genResult.text))
        /\ failedStep # "none" => http.status = 500

\* C9: when the backend call fails, generate_suggestions raises the
\* backend's exception unchanged, the backend has been invoked exactly once
\* and no finding list is returned; the backend is never invoked twice in
\* one pipeline invocation.
C9_BackendFailurePropagatesNoRetry ==
    /\ backendCalls <= 1
    /\ (genResult.kind = "raised" /\ genResult.exc \in BackendFailures) =>
           /\ backendCalls = 1
           /\ rules = <<>>
           /\ http.status # 200
           /\ ServiceDone => result = RulesRaised(genResult.exc)
           /\ pc \in {"gen_done", "svc_done", "ep_finally", "ep_done"}

C9_Witness ==
    /\ pc = "ep_done"
    /\ genResult = GenRaised("RateLimitError")
    /\ result = RulesRaised("RateLimitError")
    /\ backendCalls = 1 /\ http.status = 500

\* ---- C22 ----
\* the provider and the model a query selects: the override when supplied,
\* the configured default when left out
SelectedProvider == IF query.provider = PyNone THEN provider ELSE query.provider.s
SelectedModel == IF query.model = PyNone THEN ConfigModel ELSE query.model.s

\* C22: a successful response reports, as metadata.provider and model_used,
\* the query's provider and model when they are supplied and the configured
\* defaults when they are left out, and the request was sent for that model
C22_QueryOverridesSelectProviderAndModel ==
    (pc = "ep_done" /\ http.status = 200) =>
        /\ http.provider = SelectedProvider
        /\ http.model_used = SelectedModel
        /\ request # NoRequest => request["model"] = SelectedModel

\* ---- C29 ----
\* C29: when the request has completed, a cursor that was created has been
\* closed exactly once, whichever step failed or none; when the creation
\* failed nothing was closed and the outcome is HTTP 500; no cursor is
\* closed twice at any time
C29_CursorClosedExactlyOnce ==
    /\ closes <= 1
    /\ pc = "ep_done" =>
          /\ failedStep = "cursor" <=> cursor = "None"
          /\ cursor # "None" => cursor = "closed" /\ closes = 1
          /\ cursor = "None" => closes = 0 /\ http.status = 500

\* a request whose sample fetch failed after the cursor was created
C29_Witness ==
    /\ pc = "ep_done" /\ failedStep = "sample"
    /\ cursor = "closed" /\ closes = 1 /\ http.status = 500

\* ---- ProfilingSuggestionService over the profiling tables ----
\* rows of profiling_runs and column_profiles carry the columns the service
\* reads back; table_name stands for the payload's other scalar fields
ProfileIds == {"p1", "p2"}
TableNames == {"orders", "users"}
ColumnLists == {<<>>, <<"a">>, <<"a", "b">>}

\* ProfilingDataResponse payloads
Payloads == [id : ProfileIds, tableName : TableNames, columns : ColumnLists]

\* the attributes an instance of ProfilingSuggestionService has
ServiceAttributes ==
    {"db", "fetch_profiling_data", "save_profiling_data", "fetch_and_save",
     "get_profiling_runs", "get_profiling_run_by_id", "_build_response"}

StoreReturned(op, arg, v) == [op |-> op, arg |-> arg, kind |-> "returned", value |-> v]
StoreRaised(op, arg, e) == [op |-> op, arg |-> arg, kind |-> "raised", value |-> e]
NoCall == [op |-> "none", arg |-> <<>>, kind |-> "none", value |-> <<>>]

\* self.db.query(ProfilingRun).filter(profile_id == ...).first(): the
\* position of the stored run, 0 for None
FirstRun(profiling_runs, profile_id) ==
    IF \E i \in 1..Len(profiling_runs) : profiling_runs[i].profile_id = profile_id
    THEN CHOOSE i \in 1..Len(profiling_runs) :
             /\ profiling_runs[i].profile_id = profile_id
             /\ \A j \in 1..(i - 1) : profiling_runs[j].profile_id # profile_id
    ELSE 0

\* _build_response: the run with the column rows of its relationship
BuildResponse(st, run) ==
    [id |-> run.id,
     profile_id |-> run.profile_id,
     table_name |-> run.table_name,
     column_count |-> run.column_count,
     columns |-> SelectSeq(st.column_profiles,
                           LAMBDA c : c.profiling_run_id = run.id)]

\* the insert branch: one ProfilingRun, flushed to get its id, then one
\* ColumnProfile per payload column, then the commit
InsertRun(st, data) ==
    LET run == [id |-> Len(st.profiling_runs) + 1,
                profile_id |-> data.id,
                table_name |-> data.tableName,
                column_count |-> Len(data.columns)]
        base == Len(st.column_profiles)
        rows == [k \in 1..Len(data.columns) |->
                    [id |-> base + k,
                     profiling_run_id |-> run.id,
                     column_name |-> data.columns[k]]]
        after == [st EXCEPT !.profiling_runs = Append(@, run),
                            !.column_profiles = @ \o rows]
    IN [after EXCEPT
           !.last = StoreReturned("save_profiling_data", data,
                                  BuildResponse(after, run))]

\* variant: no lookup of the profile id before the insert
save_profiling_data_NoLookup(st, data) == InsertRun(st, data)

\* save_profiling_data: the stored run is returned as it is, a new profile
\* id is inserted
save_profiling_data(st, data) ==
    LET existing == FirstRun(st.profiling_runs, data.id)
    IN IF existing # 0
       THEN [st EXCEPT
                !.last = StoreReturned("save_profiling_data", data,
                             BuildResponse(st, st.profiling_runs[existing]))]
       ELSE InsertRun(st, data)

\* service.<name>(...): the attribute lookup on the instance
CallAttribute(st, name, arg) ==
    IF name \in ServiceAttributes
    THEN st
    ELSE [st EXCEPT !.last = StoreRaised(name, arg, "AttributeError")]

\* the arguments the tests pass to create_suggestion and get_suggestions
SuggestionCreates ==
    [dataset_name : {"users"}, column_name : {"email", "age"},
     severity : {"warning", "critical"}]
SuggestionFilters ==
    [dataset_name : {"users"}, severity : {"warning", "critical"}]

InitStore ==
    /\ pc = "store"
    /\ store = [profiling_runs |-> <<>>, column_profiles |-> <<>>,
                last |-> NoCall, calls |-> 0]
    /\ query = NoQuery /\ kc = <<>> /\ disc = <<>>
    /\ analyzed = <<>> /\ col_stats = <<>> /\ runs = <<>>
    /\ ClientIdle /\ PromptIdle /\ ParseIdle /\ LoopIdle /\ EndpointIdle

StoreUnchanged ==
    UNCHANGED <<pc, clientVars, promptVars, parseVars, loopVars, endpointVars,
                analyzed, col_stats, runs, query, kc, disc>>

Counted(st) == [st EXCEPT !.calls = @ + 1]

SaveProfilingData ==
    /\ store.calls < MaxSaves
    /\ \E data \in Payloads : store' = Counted(save_profiling_data(store, data))
    /\ StoreUnchanged

\* the tests' service.create_suggestion(ProfilingSuggestionCreate(...))
CreateSuggestion ==
    /\ store.calls < MaxSaves
    /\ \E arg \in SuggestionCreates :
          store' = Counted(CallAttribute(store, "create_suggestion", arg))
    /\ StoreUnchanged

\* the tests' service.get_suggestions(dataset_name=..., severity=...)
GetSuggestions ==
    /\ store.calls < MaxSaves
    /\ \E arg \in SuggestionFilters :
          store' = Counted(CallAttribute(store, "get_suggestions", arg))
    /\ StoreUnchanged

NextStore == SaveProfilingData \/ CreateSuggestion \/ GetSuggestions

SpecStore == InitStore /\ [][NextStore]_vars

\* ---- C23 ----
\* C23: create_suggestion returns the created suggestion with a non-null id
\* and the supplied fields, and get_suggestions returns a list of stored
\* suggestions each of which matches every supplied filter
C23_CreateAndFilterSuggestions ==
    LET last == store.last
    IN /\ last.op = "create_suggestion" =>
             /\ last.kind = "returned"
             /\ last.value.id # PyNone
             /\ last.value.dataset_name = last.arg.dataset_name
             /\ last.value.severity = last.arg.severity
       /\ last.op = "get_suggestions" =>
             /\ last.kind = "returned"
             /\ \A i \in 1..Len(last.value) :
                   /\ last.value[i].dataset_name = last.arg.dataset_name
                   /\ last.value[i].severity = last.arg.severity

\* ---- C28 ----
RunsWith(profile_id) ==
    {i \in 1..Len(store.profiling_runs) :
        store.profiling_runs[i].profile_id = profile_id}

\* one save_profiling_data call, from the store before to the store after
C28_SaveStep ==
    (store'.calls = store.calls + 1 /\ store'.last.op = "save_profiling_data") =>
        LET data == store'.last.arg
            stored == RunsWith(data.id)
            before == Len(store.profiling_runs)
            rowsBefore == Len(store.column_profiles)
        IN IF stored # {}
           THEN /\ store'.profiling_runs = store.profiling_runs
                /\ store'.column_profiles = store.column_profiles
                /\ store'.last.kind = "returned"
                /\ \E i \in stored :
                      store'.last.value =
                          BuildResponse(store, store.profiling_runs[i])
           ELSE /\ Len(store'.profiling_runs) = before + 1
                /\ SubSeq(store'.profiling_runs, 1, before) = store.profiling_runs
                /\ store'.profiling_runs[before + 1].profile_id = data.id
                /\ Len(store'.column_profiles) = rowsBefore + Len(data.columns)
                /\ SubSeq(store'.column_profiles, 1, rowsBefore)
                       = store.column_profiles
                /\ \A k \in 1..Len(data.columns) :
                      LET row == store'.column_profiles[rowsBefore + k]
                      IN /\ row.column_name = data.columns[k]
                         /\ row.profiling_run_id
                               = store'.profiling_runs[before + 1].id

\* C28: the store never holds two ProfilingRun rows with one profile_id; a
\* save whose profile_id is stored writes no run and no column row and
\* returns the stored run, whatever the payload; a save with a new
\* profile_id inserts one run and one ColumnProfile per payload column
C28_OneRunPerProfileId ==
    /\ [](\A id \in ProfileIds : Cardinality(RunsWith(id)) <= 1)
    /\ [][C28_SaveStep]_vars

\* a second save of a stored profile id with another payload: the stored
\* run, with its own table and columns, came back
C28_Witness ==
    /\ store.calls = 2
    /\ Len(store.profiling_runs) = 1
    /\ store.last.op = "save_profiling_data"
    /\ store.last.arg.tableName # store.profiling_runs[1].table_name
    /\ store.last.arg.columns # <<>>
    /\ store.last.value.table_name = store.profiling_runs[1].table_name
    /\ store.last.value.columns = <<>>

\* ---- TrinoDataFetchService over the discovery records ----
\* a table entry of a discovery record; columns stands for its column list
DiscTable(name, cols) == [table_name |-> name, columns |-> cols]
DiscSchema(name, tables) == [schema_name |-> name, tables |-> tables]

\* the schemas documents stored in discovery_data: repeated schemas and
\* tables, a schema with an empty name, a table entry without a name
SchemaLists ==
    {<<DiscSchema(PyStr("s1"), <<DiscTable(PyStr("t1"), "c1"),
                                 DiscTable(PyStr("t2"), "c1"),
                                 DiscTable(PyStr("t1"), "c2")>>),
       DiscSchema(PyStr(""), <<DiscTable(PyStr("t1"), "c1")>>),
       DiscSchema(PyStr("s1"), <<DiscTable(PyStr("t2"), "c2")>>)>>,
     <<DiscSchema(PyStr("s2"), <<DiscTable(PyStr("t2"), "c1")>>),
       DiscSchema(PyStr(""), <<>>)>>,
     <<DiscSchema(PyStr("s1"), <<DiscTable(PyNone, "c1")>>)>>}

SourceIds == {"src1", "src2"}
Timestamps == {1, 2}
DiscoveryRecords ==
    [schemas : SchemaLists, timestamp : Timestamps, source_id : SourceIds]

\* truth value of an Optional[str] argument
Truthy(v) == v # PyNone /\ v # PyStr("")

\* cast(schemas, String).like('%"schema_name": "<schema>"%')
MentionsSchema(record, schema) ==
    \E i \in 1..Len(record.schemas) : record.schemas[i].schema_name = PyStr(schema)

\* query_discovery_data: the records that mention the schema, of the source
\* when one is given, latest first; records of one timestamp in any order
QueryDiscoveryData(records, schema, source_id) ==
    LET hits == {i \in 1..Len(records) :
                    /\ MentionsSchema(records[i], schema)
                    /\ source_id # "" => records[i].source_id = source_id}
    IN {[k \in 1..Cardinality(hits) |-> records[f[k]]] :
           f \in {g \in [1..Cardinality(hits) -> hits] :
                     /\ \A k, l \in 1..Cardinality(hits) : k # l => g[k] # g[l]
                     /\ \A k, l \in 1..Cardinality(hits) :
                           k < l => records[g[k]].timestamp
                                        >= records[g[l]].timestamp}}

DiscReturned(v) == [kind |-> "returned", value |-> v]
DiscRaised(e) == [kind |-> "raised", value |-> e]
DiscNotRun == [kind |-> "none", value |-> <<>>]

\* TableInfo(...) as get_tables_from_discovery builds it
MakeTableInfo(source_id, schema_name, table) ==
    [source_id |-> source_id, schema_name |-> schema_name.s,
     table_name |-> table.table_name.s, columns |-> table.columns]

\* variant: no seen_tables check
AddTable_NoSeen(acc, source_id, schema_name, table, table_filter) ==
    IF acc.exc # "none" THEN acc
    ELSE IF Truthy(table_filter) /\ table.table_name # table_filter THEN acc
    ELSE IF schema_name.py # "str" \/ table.table_name.py # "str"
         THEN [acc EXCEPT !.exc = "ValidationError"]
    ELSE [acc EXCEPT
             !.infos = Append(@, MakeTableInfo(source_id, schema_name, table))]

\* the body of the loop over a schema's tables: the table filter, the
\* seen_tables check, then the TableInfo, which pydantic rejects when a name
\* is not a str
AddTable(acc, source_id, schema_name, table, table_filter) ==
    IF acc.exc # "none" THEN acc
    ELSE IF Truthy(table_filter) /\ table.table_name # table_filter THEN acc
    ELSE IF <<schema_name, table.table_name>> \in acc.seen THEN acc
    ELSE IF schema_name.py # "str" \/ table.table_name.py # "str"
         THEN [acc EXCEPT !.exc = "ValidationError"]
    ELSE [acc EXCEPT
             !.infos = Append(@, MakeTableInfo(source_id, schema_name, table)),
             !.seen = @ \cup {<<schema_name, table.table_name>>}]

RECURSIVE ScanTables(_, _, _, _, _, _)
ScanTables(acc, source_id, schema_name, tables, k, table_filter) ==
    IF k > Len(tables) THEN acc
    ELSE ScanTables(AddTable(acc, source_id, schema_name, tables[k], table_filter),
                    source_id, schema_name, tables, k + 1, table_filter)

RECURSIVE ScanSchemas(_, _, _, _, _, _)
ScanSchemas(acc, source_id, schemas, k, schema_filter, table_filter) ==
    IF k > Len(schemas) THEN acc
    ELSE LET schema == schemas[k]
             next == IF Truthy(schema_filter) /\ schema.schema_name # schema_filter
                     THEN acc
                     ELSE ScanTables(acc, source_id, schema.schema_name,
                                     schema.tables, 1, table_filter)
         IN ScanSchemas(next, source_id, schemas, k + 1, schema_filter,
                        table_filter)

\* get_tables_from_discovery once query_discovery_data has answered
TablesFromDiscovery(discovery_results, source_id, schema_filter, table_filter) ==
    IF discovery_results = <<>> THEN DiscReturned(<<>>)
    ELSE LET latest_record == discovery_results[1]
             acc == ScanSchemas([infos |-> <<>>, seen |-> {}, exc |-> "none"],
                                source_id, latest_record.schemas, 1,
                                schema_filter, table_filter)
         IN IF acc.exc = "none" THEN DiscReturned(acc.infos)
            ELSE DiscRaised("Error getting tables from discovery")

\* TableSampleResponse of one table
SampleOf(table_info) ==
    [schema_name |-> table_info.schema_name, table_name |-> table_info.table_name]

\* variant: a table whose fetch fails ends the call
OnTableError_Abort(d) ==
    [d EXCEPT !.fetched = Append(@, "failed"),
              !.outcome = DiscRaised("Error fetching all tables sample data"),
              !.pc = "done"]

\* except Exception as table_error: log, continue
OnTableError(d) ==
    [d EXCEPT !.fetched = Append(@, "failed"), !.pos = @ + 1]

SchemaFilters == {PyNone, PyStr("s1")}
TableFilters == {PyNone, PyStr("t1")}

InitDiscovery ==
    /\ pc = "discovery"
    /\ \E records \in UNION {[1..n -> DiscoveryRecords] : n \in 0..MaxRecords},
          schema_filter \in SchemaFilters, table_filter \in TableFilters :
          disc = [records |-> records, source_id |-> "src1",
                  schema_filter |-> schema_filter, table_filter |-> table_filter,
                  discovery_results |-> <<>>, tables |-> DiscNotRun,
                  pos |-> 0, fetched |-> <<>>, results |-> <<>>,
                  outcome |-> DiscNotRun, pc |-> "start"]
    /\ query = NoQuery /\ kc = <<>> /\ store = <<>>
    /\ analyzed = <<>> /\ col_stats = <<>> /\ runs = <<>>
    /\ ClientIdle /\ PromptIdle /\ ParseIdle /\ LoopIdle /\ EndpointIdle

DiscUnchanged ==
    UNCHANGED <<pc, clientVars, promptVars, parseVars, loopVars, endpointVars,
                analyzed, col_stats, runs, query, kc, store>>

\* fetch_all_tables_sample_data up to the loop: get_tables_from_discovery
\* with its query, the empty-list return, the outer except
FetchAllStart ==
    /\ disc.pc = "start"
    /\ \/ \E results \in QueryDiscoveryData(disc.records,
                              IF Truthy(disc.schema_filter)
                              THEN disc.schema_filter.s ELSE "",
                              disc.source_id) :
             LET tables == TablesFromDiscovery(results, disc.source_id,
                               disc.schema_filter, disc.table_filter)
             IN disc' = [disc EXCEPT
                    !.discovery_results = results,
                    !.tables = tables,
                    !.outcome =
                        IF tables.kind = "raised"
                        THEN DiscRaised("Error fetching all tables sample data")
                        ELSE IF tables.value = <<>> THEN DiscReturned(<<>>)
                        ELSE @,
                    !.pc = IF tables.kind = "raised" \/ tables.value = <<>>
                           THEN "done" ELSE "loop",
                    !.pos = 1]
       \/ \* query_discovery_data raises: PostgreSQL query failed
          disc' = [disc EXCEPT
                    !.tables = DiscRaised("Error getting tables from discovery"),
                    !.outcome = DiscRaised("Error fetching all tables sample data"),
                    !.pc = "done"]
    /\ DiscUnchanged

\* one turn of the loop: get_table_sample_data answers or raises
FetchTable ==
    /\ disc.pc = "loop"
    /\ disc.pos <= Len(disc.tables.value)
    /\ \/ disc' = [disc EXCEPT
                     !.results = Append(@, SampleOf(disc.tables.value[disc.pos])),
                     !.fetched = Append(@, "ok"),
                     !.pos = @ + 1]
       \/ disc' = OnTableError(disc)
    /\ DiscUnchanged

\* return results
FetchAllReturn ==
    /\ disc.pc = "loop"
    /\ disc.pos > Len(disc.tables.value)
    /\ disc' = [disc EXCEPT !.outcome = DiscReturned(disc.results), !.pc = "done"]
    /\ DiscUnchanged

NextDiscovery == FetchAllStart \/ FetchTable \/ FetchAllReturn

SpecDiscovery == InitDiscovery /\ [][NextDiscovery]_vars

\* ---- C24 ----
\* the (schema, table, columns) entries of a record in document order
RECURSIVE Flatten(_)
Flatten(schemas) ==
    IF schemas = <<>> THEN <<>>
    ELSE LET schema == Head(schemas)
         IN [k \in 1..Len(schema.tables) |->
                [schema_name |-> schema.schema_name,
                 table_name |-> schema.tables[k].table_name,
                 columns |-> schema.tables[k].columns]]
            \o Flatten(Tail(schemas))

PassesFilters(entry) ==
    /\ disc.schema_filter \in {PyNone, entry.schema_name}
    /\ disc.table_filter \in {PyNone, entry.table_name}

\* C24: the list get_tables_from_discovery returns is empty when the query
\* returned no record; otherwise it is made from the first record of the
\* query's list, which no other record of the list is later than: it holds
\* each (schema_name, table_name) pair of that record that passes the schema
\* and table filters once, as its first occurrence, in first-occurrence order
C24_TablesFromLatestRecordOnly ==
    disc.tables.kind = "returned" =>
        LET results == disc.discovery_results
            infos == disc.tables.value
        IN /\ results = <<>> => infos = <<>>
           /\ results # <<>> =>
                 LET entries == Flatten(results[1].schemas)
                     firsts == {k \in 1..Len(entries) :
                                  /\ PassesFilters(entries[k])
                                  /\ \A j \in 1..(k - 1) :
                                        \/ entries[j].schema_name
                                              # entries[k].schema_name
                                        \/ entries[j].table_name
                                              # entries[k].table_name}
                 IN /\ \A i \in 1..Len(results) :
                          results[i].timestamp <= results[1].timestamp
                    /\ Len(infos) = Cardinality(firsts)
                    /\ \E f \in [1..Len(infos) -> firsts] :
                          /\ \A i, j \in 1..Len(infos) : i < j => f[i] < f[j]
                          /\ \A i \in 1..Len(infos) :
                                /\ infos[i].schema_name = entries[f[i]].schema_name.s
                                /\ infos[i].table_name = entries[f[i]].table_name.s
                                /\ infos[i].columns = entries[f[i]].columns
                                /\ infos[i].source_id = disc.source_id

\* two records answer the query; the later one repeats a schema and two
\* tables, and its three distinct tables are returned
C24_Witness ==
    /\ disc.tables.kind = "returned"
    /\ Len(disc.discovery_results) = 2
    /\ disc.discovery_results[1].timestamp > disc.discovery_results[2].timestamp
    /\ Len(Flatten(disc.discovery_results[1].schemas)) = 5
    /\ Len(disc.tables.value) = 3
    /\ disc.tables.value[2].columns = "c1"

\* ---- C30 ----
\* the tables whose fetch succeeded, in discovery order
RECURSIVE FetchedSamples(_, _, _)
FetchedSamples(tables, fetched, k) ==
    IF k > Len(fetched) THEN <<>>
    ELSE (IF fetched[k] = "ok" THEN <<SampleOf(tables[k])>> ELSE <<>>)
         \o FetchedSamples(tables, fetched, k + 1)

\* C30: fetch_all_tables_sample_data raises exactly when the discovery
\* lookup raised; otherwise every table of the lookup was tried and the
\* result is the samples of the tables whose fetch succeeded, in discovery
\* order
C30_PerTableFailuresAreSkipped ==
    disc.pc = "done" =>
        /\ disc.outcome.kind = "raised" <=> disc.tables.kind = "raised"
        /\ disc.outcome.kind = "returned" =>
              /\ Len(disc.fetched) = Len(disc.tables.value)
              /\ disc.outcome.value
                    = FetchedSamples(disc.tables.value, disc.fetched, 1)

\* three tables: the first fetch fails, the second succeeds, the third fails
C30_Witness ==
    /\ disc.pc = "done"
    /\ disc.fetched = <<"failed", "ok", "failed">>
    /\ disc.outcome = DiscReturned(<<SampleOf(disc.tables.value[2])>>)

\* ---- KeycloakTokenService shared by threads ----
\* time is counted in minutes
SafetyMarginMinutes == 2
FallbackMinutes == 15

Threads == 1..NumThreads

\* None as a datetime, as an exp claim and as a token; a token is its
\* issue number and its exp claim
NoTime == -1
NoToken == [n |-> 0, exp |-> NoTime]

\* what the exp claim of a token issued at a time may say: inside the safety
\* margin, just outside it, or nothing that decodes
ExpClaims(at) == {at + SafetyMarginMinutes,
                  at + SafetyMarginMinutes + 1,
                  NoTime}

\* variant: the margin is compared with <=
IsTokenValid_AtMargin(k) ==
    IF k.cached_token = NoToken \/ k.token_expires_at = NoTime THEN FALSE
    ELSE k.now <= k.token_expires_at - SafetyMarginMinutes

\* _is_token_valid
IsTokenValid(k) ==
    IF k.cached_token = NoToken \/ k.token_expires_at = NoTime THEN FALSE
    ELSE k.now < k.token_expires_at - SafetyMarginMinutes

\* _decode_token_expiry: the exp claim, now + 15 minutes when it cannot be
\* decoded
DecodeTokenExpiry(access_token, at) ==
    IF access_token.exp = NoTime THEN at + FallbackMinutes
    ELSE access_token.exp

IdleThread == [pc |-> "idle", op |-> "none", result |-> "none", token |-> NoToken]

\* the with block is left: the lock is released, the caller has its outcome
Leave(k, t, outcome, token) ==
    [k EXCEPT !.lock = 0,
              !.last_op = k.th[t].op,
              !.th[t].pc = "idle",
              !.th[t].result = outcome,
              !.th[t].token = token]

\* variant: self._lock is not waited for
LockFree_Always(k) == TRUE

\* with self._lock: the lock can be taken when no thread holds it
LockFree(k) == k.lock = 0

\* KeycloakTokenService.__init__, with the settings as they are and the
\* callers that share the instance
NewService(configured, callers, max_calls) ==
    [cached_token |-> NoToken, token_expires_at |-> NoTime,
     lock |-> 0, now |-> 0, issued |-> 0, configured |-> configured,
     last_op |-> "none", calls |-> 0, max_calls |-> max_calls,
     th |-> [t \in callers |-> IdleThread]]

KcOthersIdle ==
    /\ pc = "keycloak"
    /\ query = NoQuery /\ disc = <<>> /\ store = <<>>
    /\ analyzed = <<>> /\ col_stats = <<>> /\ runs = <<>>
    /\ ClientIdle /\ PromptIdle /\ ParseIdle /\ LoopIdle /\ EndpointIdle

\* one caller, one call after the other, while the clock runs
InitKeycloak ==
    /\ \E configured \in BOOLEAN : kc = NewService(configured, {1}, MaxKcCalls)
    /\ KcOthersIdle

\* several threads call the global instance side by side
InitKeycloakThreads ==
    /\ \E configured \in BOOLEAN :
          kc = NewService(configured, Threads, NumThreads + 1)
    /\ KcOthersIdle

KcUnchanged ==
    UNCHANGED <<pc, clientVars, promptVars, parseVars, loopVars, endpointVars,
                analyzed, col_stats, runs, query, disc, store>>

\* a thread calls get_service_token or clear_cache
KcCall(t) ==
    /\ kc.th[t].pc = "idle"
    /\ kc.calls < kc.max_calls
    /\ \E op \in {"get_service_token", "clear_cache"} :
          kc' = [kc EXCEPT !.calls = @ + 1,
                           !.th[t] = [pc |-> "acquire", op |-> op,
                                      result |-> "none", token |-> NoToken]]
    /\ KcUnchanged

\* with self._lock: entered
KcAcquire(t) ==
    /\ kc.th[t].pc = "acquire"
    /\ LockFree(kc)
    /\ kc' = [kc EXCEPT !.lock = t,
                        !.th[t].pc = IF kc.th[t].op = "clear_cache"
                                     THEN "clear" ELSE "check"]
    /\ KcUnchanged

\* get_service_token up to the request: the cached token is returned, or a
\* missing setting raises ValueError, or the request is sent
KcCheck(t) ==
    /\ kc.th[t].pc = "check"
    /\ kc' = IF IsTokenValid(kc)
             THEN Leave(kc, t, "cached", kc.cached_token)
             ELSE IF ~kc.configured
             THEN Leave(kc, t, "ValueError", NoToken)
             ELSE [kc EXCEPT !.issued = @ + 1, !.th[t].pc = "request"]
    /\ KcUnchanged

\* requests.post(..., timeout=10) answers: a token, or RequestException, or
\* a body without access_token
KcRespond(t) ==
    /\ kc.th[t].pc = "request"
    /\ \/ \E exp \in ExpClaims(kc.now) :
             kc' = [kc EXCEPT !.th[t].pc = "store_token",
                              !.th[t].token = [n |-> kc.issued, exp |-> exp]]
       \/ kc' = Leave(kc, t, "Keycloak authentication failed", NoToken)
       \/ kc' = Leave(kc, t, "Invalid Keycloak token response", NoToken)
    /\ KcUnchanged

\* self._cached_token = access_token
KcStoreToken(t) ==
    /\ kc.th[t].pc = "store_token"
    /\ kc' = [kc EXCEPT !.cached_token = kc.th[t].token,
                        !.th[t].pc = "store_expiry"]
    /\ KcUnchanged

\* self._token_expires_at = self._decode_token_expiry(access_token);
\* return access_token
KcStoreExpiry(t) ==
    /\ kc.th[t].pc = "store_expiry"
    /\ kc' = Leave([kc EXCEPT !.token_expires_at =
                                  DecodeTokenExpiry(kc.th[t].token, kc.now)],
                   t, "fresh", kc.th[t].token)
    /\ KcUnchanged

\* clear_cache inside the lock
KcClear(t) ==
    /\ kc.th[t].pc = "clear"
    /\ kc' = Leave([kc EXCEPT !.cached_token = NoToken,
                              !.token_expires_at = NoTime],
                   t, "cleared", NoToken)
    /\ KcUnchanged

\* a minute passes
KcTick ==
    /\ kc.now < MaxTime
    /\ kc' = [kc EXCEPT !.now = @ + 1]
    /\ KcUnchanged

KcThreadStep(t) ==
    \/ KcCall(t)
    \/ KcAcquire(t)
    \/ KcCheck(t)
    \/ KcRespond(t)
    \/ KcStoreToken(t)
    \/ KcStoreExpiry(t)
    \/ KcClear(t)

NextKeycloak == KcTick \/ KcThreadStep(1)

SpecKeycloak == InitKeycloak /\ [][NextKeycloak]_vars

NextKeycloakThreads == \E t \in Threads : KcThreadStep(t)

\* a thread that has made its call takes its next step when it can: the
\* request ends after its timeout at the latest
SpecKeycloakThreads ==
    /\ InitKeycloakThreads
    /\ [][NextKeycloakThreads]_vars
    /\ \A t \in Threads : WF_vars(KcThreadStep(t) /\ kc.th[t].pc # "idle")

\* ---- C26 ----
\* a token is cached and the clock is more than two minutes before its
\* recorded expiry
CachedAndFresh ==
    /\ kc.cached_token # NoToken
    /\ kc.token_expires_at # NoTime
    /\ kc.token_expires_at - kc.now > 2

CacheUnchanged ==
    /\ kc'.cached_token = kc.cached_token
    /\ kc'.token_expires_at = kc.token_expires_at

\* the caller's get_service_token decides between the cache and a request
Decides(t) == kc.th[t].pc = "check" /\ kc'.th[t] # kc.th[t]

ReturnsCached(t) ==
    /\ kc'.th[t].pc = "idle" /\ kc'.th[t].result = "cached"
    /\ kc'.th[t].token = kc.cached_token
    /\ kc'.issued = kc.issued
    /\ CacheUnchanged

SendsRequest(t) ==
    /\ kc'.th[t].pc = "request"
    /\ kc'.issued = kc.issued + 1

\* what follows the decision: no second request; a failed request leaves
\* the cache as it was; a success caches the new token with its expiry and
\* returns it
AfterDecision(t) ==
    /\ kc.th[t].pc \in {"request", "store_token", "store_expiry"} =>
          kc'.issued = kc.issued
    /\ (kc.th[t].pc = "request" /\ kc'.th[t].pc = "idle") =>
          /\ kc'.th[t].result \in {"Keycloak authentication failed",
                                    "Invalid Keycloak token response"}
          /\ CacheUnchanged
    /\ (kc.th[t].pc = "store_expiry" /\ kc'.th[t].pc = "idle") =>
          /\ kc'.th[t].result = "fresh"
          /\ kc'.th[t].token.n = kc.issued
          /\ kc'.cached_token = kc'.th[t].token
          /\ kc'.token_expires_at # NoTime
          /\ kc'.token_expires_at \in {kc'.cached_token.exp, kc.now + 15}

\* C26 as stated: get_service_token returns the cached token without a
\* request exactly when a token is cached and the clock is more than two
\* minutes before its expiry, and otherwise issues exactly one request; the
\* first get_service_token after clear_cache issues a request; a failed
\* request leaves the cache unchanged
C26_CachedOrExactlyOneRequest ==
    [][\A t \in DOMAIN kc.th :
          /\ Decides(t) =>
                IF CachedAndFresh THEN ReturnsCached(t) ELSE SendsRequest(t)
          /\ (Decides(t) /\ kc.last_op = "clear_cache") => SendsRequest(t)
          /\ AfterDecision(t)]_vars

\* C26, amended: as above when the four Keycloak settings are set; when one
\* is missing, a call that cannot use the cache raises ValueError without a
\* request and leaves the cache unchanged; the first get_service_token after
\* clear_cache never returns a cached token
C26_CachedOrOneRequestWhenConfigured ==
    [][\A t \in DOMAIN kc.th :
          /\ Decides(t) =>
                IF CachedAndFresh THEN ReturnsCached(t)
                ELSE IF kc.configured THEN SendsRequest(t)
                ELSE /\ kc'.th[t].pc = "idle"
                     /\ kc'.th[t].result = "ValueError"
                     /\ kc'.issued = kc.issued
                     /\ CacheUnchanged
          /\ (Decides(t) /\ kc.last_op = "clear_cache") => ~ReturnsCached(t)
          /\ (Decides(t) /\ kc.last_op = "clear_cache" /\ kc.configured) =>
                SendsRequest(t)
          /\ AfterDecision(t)]_vars

\* the third call: after a fresh token and a clear_cache, a second request
\* was sent and its token is cached
C26_Witness ==
    /\ kc.calls = 3 /\ kc.issued = 2
    /\ kc.th[1].pc = "idle" /\ kc.th[1].result = "fresh"
    /\ kc.cached_token = kc.th[1].token
    /\ kc.cached_token.n = 2
    /\ kc.now > 0

\* ---- C27 ----
InsideLock == {"check", "request", "store_token", "store_expiry", "clear"}

\* C27: with threads calling get_service_token and clear_cache side by side,
\* at most one token request is in flight; a thread is at a statement that
\* reads or writes the cache only while it holds the lock, and the lock is
\* held only by such a thread; whenever the lock is free the cached token
\* and the expiry are both None or both of one token response; and every
\* thread that waits for the lock returns from its call
C27_LockSerialisesTokenRequests ==
    /\ [](/\ Cardinality({t \in Threads : kc.th[t].pc = "request"}) <= 1
          /\ \A t \in Threads : kc.th[t].pc \in InsideLock => kc.lock = t
          /\ kc.lock # 0 => kc.th[kc.lock].pc \in InsideLock
          /\ kc.lock = 0 =>
                IF kc.cached_token = NoToken THEN kc.token_expires_at = NoTime
                ELSE kc.token_expires_at
                        \in {kc.cached_token.exp, kc.now + 15} \ {NoTime})
    /\ \A t \in Threads :
          (kc.th[t].pc = "acquire") ~> (kc.th[t].pc = "idle")

\* one thread's request is in flight while another waits for the lock
C27_Witness ==
    /\ kc.lock = 1 /\ kc.th[1].pc = "request"
    /\ kc.th[2].pc = "acquire" /\ kc.th[2].op = "get_service_token"
    /\ kc.cached_token # NoToken

\* ---- parse_json_response applied to every short response ----
SegAlphabet == {FENCE, "json", "[", "]", QUOTE, "1", "\n"}
ShortResponses == UNION {[1..n -> SegAlphabet] : n \in 0..MaxSegs}

InitParse ==
    /\ pc = "parse_start"
    /\ response \in ShortResponses
    /\ parsed = NotRun
    /\ ClientIdle /\ PromptIdle /\ LoopIdle /\ EndpointIdle /\ ExtraIdle

ParseJsonResponse ==
    /\ UNCHANGED extraVars
    /\ pc = "parse_start"
    /\ parsed' = parse_json_response(response)
    /\ pc' = "parse_done"
    /\ UNCHANGED <<response, clientVars, promptVars, loopVars, endpointVars>>

NextParse == ParseJsonResponse

SpecParse == InitParse /\ [][NextParse]_vars

\* ---- C5 ----
\* is there a fence at or after 0-based index i
FenceFrom(resp, i) == Find(resp, PlainFence, i) # -1

HasLabeledBlock(resp) ==
    /\ Contains(resp, LabeledFence)
    /\ FenceFrom(resp, Find(resp, LabeledFence, 0) + Len(LabeledFence))

HasPlainBlock(resp) ==
    /\ Contains(resp, PlainFence)
    /\ FenceFrom(resp, Find(resp, PlainFence, 0) + Len(PlainFence))

\* the text the stated priority selects: interior of the labeled block, else
\* interior of the first plain block, else the response verbatim
InteriorByPriority(resp) ==
    IF HasLabeledBlock(resp)
    THEN LET start == Find(resp, LabeledFence, 0) + Len(LabeledFence)
         IN SubSeq(resp, start + 1, Find(resp, PlainFence, start))
    ELSE IF HasPlainBlock(resp)
         THEN LET start == Find(resp, PlainFence, 0) + Len(PlainFence)
              IN SubSeq(resp, start + 1, Find(resp, PlainFence, start))
         ELSE resp

\* C5: for every response, parse_json_response yields the JSON value of the
\* interior of the labeled fenced block if there is one, else of the first
\* plain fenced block if there is one, else of the response verbatim (and
\* the invalid-JSON error exactly when that text is not JSON).
C5_ParsesTextChosenByPriority ==
    pc = "parse_done" =>
        parsed = LoadsOrValueError(InteriorByPriority(response))

====
